---------------------------- MODULE Spec2Model ----------------------------
(***************************************************************************)
(* State-machine model of the certificate registry backend                 *)
(* (src/backend/server.js: the /api/auth router) and of the pooled         *)
(* database connections it runs on (src/unnamed/part_000).                 *)
(*                                                                         *)
(* JavaScript strings are sequences of atoms: the atom " " is a whitespace *)
(* character, every other atom is a run of non-whitespace text.  A value   *)
(* of a JSON body field is a tagged record [t, s, n].                      *)
(***************************************************************************)
EXTENDS Integers, Sequences, FiniteSets, TLC

(***************************************************************************)
(* JavaScript values                                                       *)
(***************************************************************************)
Undefined == [t |-> "undefined", s |-> <<>>, n |-> 0]
Null      == [t |-> "null",      s |-> <<>>, n |-> 0]
Str(s)    == [t |-> "string",    s |-> s,    n |-> 0]
Num(n)    == [t |-> "number",    s |-> <<>>, n |-> n]

\* JavaScript truthiness: undefined, null, "" and 0 are falsy.
Truthy(v) ==
  \/ v.t = "string" /\ v.s # <<>>
  \/ v.t = "number" /\ v.n # 0

IsWs(c) == c = " "

\* String.prototype.trim on a sequence of atoms.
RECURSIVE TrimLeft(_)
TrimLeft(s) ==
  IF s = <<>> THEN <<>>
  ELSE IF IsWs(Head(s)) THEN TrimLeft(Tail(s)) ELSE s

RECURSIVE TrimRight(_)
TrimRight(s) ==
  IF s = <<>> THEN <<>>
  ELSE IF IsWs(s[Len(s)]) THEN TrimRight(SubSeq(s, 1, Len(s) - 1)) ELSE s

Trim(s) == TrimRight(TrimLeft(s))

DigitValue(c) ==
  CASE c = "0" -> 0 [] c = "1" -> 1 [] c = "2" -> 2 [] c = "3" -> 3
    [] c = "4" -> 4 [] c = "5" -> 5 [] c = "6" -> 6 [] c = "7" -> 7
    [] c = "8" -> 8 [] c = "9" -> 9 [] OTHER -> -1

IsDigit(c) == DigitValue(c) >= 0

\* The value of the longest prefix of decimal digits of s, folded from acc.
RECURSIVE DigitPrefix(_, _)
DigitPrefix(s, acc) ==
  IF s = <<>> \/ ~IsDigit(Head(s)) THEN acc
  ELSE DigitPrefix(Tail(s), 10 * acc + DigitValue(Head(s)))

NaN == [nan |-> TRUE, n |-> 0]
IntOf(n) == [nan |-> FALSE, n |-> n]

\* parseInt of a string: leading whitespace skipped, optional sign, then the
\* longest run of digits; NaN when there is no digit.
ParseIntStr(s) ==
  LET t    == TrimLeft(s)
      neg  == t # <<>> /\ Head(t) = "-"
      sgn  == t # <<>> /\ Head(t) \in {"-", "+"}
      body == IF sgn THEN Tail(t) ELSE t
  IN IF body = <<>> \/ ~IsDigit(Head(body)) THEN NaN
     ELSE IntOf((IF neg THEN -1 ELSE 1) * DigitPrefix(body, 0))

\* parseInt(v): the argument is converted to a string first (String(null) =
\* "null", String(undefined) = "undefined": no digits).
parseInt(v) ==
  CASE v.t = "string" -> ParseIntStr(v.s)
    [] v.t = "number" -> IntOf(v.n)
    [] OTHER          -> NaN


(***************************************************************************)
(* Constants of the router                                                 *)
(***************************************************************************)
VALID_TRAINING_TYPES ==
  << <<"Basic Life Support Training">>,
     <<"Basic Life Support and Standard First Aid Training">>,
     <<"Basic Life Support Training of trainers">>,
     <<"Standard First Aid Training of trainers">> >>

VALID_PARTICIPANT_TYPES == << <<"Lay Rescuer">>, <<"Healthcare Provider">> >>

\* Array.prototype.includes: strict equality, so only a string can be found.
Includes(list, v) ==
  v.t = "string" /\ \E i \in 1..Len(list) : list[i] = v.s

CertFields ==
  {"participant_name", "training_type", "training_date", "venue",
   "facility", "participant_type", "age", "position"}

(***************************************************************************)
(* validateCertificateData                                                 *)
(***************************************************************************)
\* data.participant_name.trim() on a truthy value that is no string raises
\* a TypeError.
ValidateThrows(data) ==
  Truthy(data.participant_name) /\ data.participant_name.t # "string"

\* Mutation of NameErrors: the name is not trimmed before the test.
NameErrors_NoTrim(data) ==
  IF ~Truthy(data.participant_name)
  THEN <<"participant_name is required">> ELSE <<>>

NameErrors(data) ==
  IF ~Truthy(data.participant_name) \/ Trim(data.participant_name.s) = <<>>
  THEN <<"participant_name is required">> ELSE <<>>

TrainingTypeErrors(data) ==
  IF Truthy(data.training_type)
     /\ ~Includes(VALID_TRAINING_TYPES, data.training_type)
  THEN <<"training_type must be one of: Basic Life Support Training, Basic Life Support and Standard First Aid Training, Basic Life Support Training of trainers, Standard First Aid Training of trainers">>
  ELSE <<>>

ParticipantTypeErrors(data) ==
  IF Truthy(data.participant_type)
     /\ ~Includes(VALID_PARTICIPANT_TYPES, data.participant_type)
  THEN <<"participant_type must be one of: Lay Rescuer, Healthcare Provider">>
  ELSE <<>>

AgePresent(v) ==
  v.t # "undefined" /\ v.t # "null" /\ ~(v.t = "string" /\ v.s = <<>>)

\* Mutation of AgeInRange: the upper limit is off by one.
AgeInRange_UpTo121(ageNum) ==
  ~ageNum.nan /\ ageNum.n >= 0 /\ ageNum.n <= 121

AgeInRange(ageNum) == ~ageNum.nan /\ ageNum.n >= 0 /\ ageNum.n <= 120

AgeErrors(data) ==
  IF AgePresent(data.age) /\ ~AgeInRange(parseInt(data.age))
  THEN <<"age must be a valid number between 0 and 120">> ELSE <<>>

validateCertificateData(data) ==
  LET errors == NameErrors(data) \o TrainingTypeErrors(data)
                \o ParticipantTypeErrors(data) \o AgeErrors(data)
  IN [valid |-> errors = <<>>, errors |-> errors]

(***************************************************************************)
(* sanitizeCertificateData                                                 *)
(***************************************************************************)
\* x?.trim() raises a TypeError when x is neither null, undefined nor a string.
TrimThrows(v) == v.t = "number"

\* x?.trim() || null
TrimOrNull(v) ==
  IF v.t = "string" /\ Trim(v.s) # <<>> THEN Str(Trim(v.s)) ELSE Null

\* data.age ? parseInt(data.age) : null
SanitizeAge(v) ==
  IF Truthy(v)
  THEN (IF parseInt(v).nan THEN [t |-> "NaN", s |-> <<>>, n |-> 0]
        ELSE Num(parseInt(v).n))
  ELSE Null

SanitizeThrows(data) ==
  \E f \in CertFields \ {"age"} : TrimThrows(data[f])

sanitizeCertificateData(data) ==
  [participant_name |-> TrimOrNull(data.participant_name),
   training_type    |-> TrimOrNull(data.training_type),
   training_date    |-> TrimOrNull(data.training_date),
   venue            |-> TrimOrNull(data.venue),
   facility         |-> TrimOrNull(data.facility),
   participant_type |-> TrimOrNull(data.participant_type),
   age              |-> SanitizeAge(data.age),
   position         |-> TrimOrNull(data.position)]


(***************************************************************************)
(* Bounds and sample inputs                                                *)
(***************************************************************************)
NumClients == 2
MaxCerts   == 2

Clients == 1..NumClients

VT1 == <<"Basic Life Support Training">>
PT1 == <<"Healthcare Provider">>

Base ==
  [participant_name |-> Str(<<"Ana">>),
   training_type    |-> Str(VT1),
   training_date    |-> Str(<<"January 21-23, 2026">>),
   venue            |-> Undefined,
   facility         |-> Undefined,
   participant_type |-> Str(PT1),
   age              |-> Num(35),
   position         |-> Undefined]

\* Request bodies of POST and PUT certificates: valid ones, and one body
\* for each way the validator and the sanitizer can refuse or transform.
CertBodies ==
  { Base,
    [Base EXCEPT !.participant_name = Str(<<" ", "Ben", " ">>),
                 !.training_type = Undefined, !.participant_type = Null,
                 !.age = Str(<<"4", "2", "x">>), !.venue = Str(<<" ">>)],
    [Base EXCEPT !.age = Num(0), !.position = Str(<<"Nurse", " ">>)],
    [Base EXCEPT !.age = Str(<<>>), !.training_type = Str(<<>>)],
    [Base EXCEPT !.participant_name = Str(<<>>)],
    [Base EXCEPT !.participant_name = Str(<<" ">>)],
    [Base EXCEPT !.participant_name = Undefined],
    [Base EXCEPT !.participant_name = Num(7)],
    [Base EXCEPT !.training_type = Str(<<"Yoga">>)],
    [Base EXCEPT !.training_type = Str(<<"Basic Life Support Training", " ">>)],
    [Base EXCEPT !.participant_type = Str(<<"Doctor">>)],
    [Base EXCEPT !.age = Num(121)],
    [Base EXCEPT !.age = Num(-1)],
    [Base EXCEPT !.age = Str(<<"x">>)],
    [Base EXCEPT !.facility = Num(5)],
    [Base EXCEPT !.participant_name = Str(<<>>), !.age = Num(200),
                 !.training_type = Str(<<"Yoga">>),
                 !.participant_type = Str(<<"Doctor">>)],
    [f \in CertFields \cup {"id", "role"} |->
       CASE f = "id" -> Num(9)
         [] f = "role" -> Str(<<"admin">>)
         [] OTHER -> Base[f]] }

\* The :id path parameter of PUT and DELETE.
IdParams == { <<"1">>, <<"2">>, <<"x">> }

NoBody == [f \in CertFields |-> Undefined]

(***************************************************************************)
(* Identity tokens and cookies                                             *)
(***************************************************************************)
NoCookie    == [kind |-> "none",   id |-> 0]
EmptyCookie == [kind |-> "empty",  id |-> 0]

\* generateToken: jwt.sign({id}, JWT_SECRET, {expiresIn: "30d"})
generateToken(id) == [kind |-> "jwt", id |-> id]

\* The protect middleware: the request passes only with a cookie that
\* carries a token signed by this server.
Authorized(token) == token.kind = "jwt"

(***************************************************************************)
(* State                                                                   *)
(***************************************************************************)
VARIABLES
  pc,            \* per client: where its request in flight stands
  req,           \* per client: the request in flight
  last,          \* the response sent last
  cookie,        \* per client: the cookie jar's "token" entry
  users,         \* table users
  certificates,  \* table certificates
  nextCertId,    \* the serial of certificates.id
  system_settings, \* table system_settings, as committed
  conns,         \* per pooled connection: opened, transaction state
  idleStack,     \* the pool's idle connections, most recently released last
  list,          \* registry page: the certificates fetched from the server
  searchTerm,    \* registry page: the text of the archive search
  groups,        \* registry page: the entries of filteredAndGroupedCerts
  sorted,        \* registry page: the batches in the order of the listing
  certs,         \* batch renderers: the certs prop
  idDocument,    \* what BatchIDPDF returned
  certDocument,  \* what BatchCertPDF returned
  pdfDocument,   \* what CertPDF returned
  currentPage,   \* registry page: the page of the archive listing
  selectedBatch, \* registry page: the batch of the detail view, or null
  modalSearch,   \* registry page: the text of the search of the detail view
  modalPage,     \* registry page: the page of the detail view
  currentView,   \* registry page: the view shown
  formRows,      \* registry page: the rows of the entry form
  draft,         \* localStorage: the item "registry_draft"
  posts          \* the POSTs of the bulk submit in flight

certVars == <<certificates, nextCertId>>
dbVars   == <<system_settings, conns, idleStack>>
serverVars == <<pc, req, last, cookie, users, certificates, nextCertId,
                system_settings, conns, idleStack>>
registryVars == <<list, searchTerm, groups, sorted>>
rendererVars == <<certs, idDocument, certDocument, pdfDocument>>
pageVars == <<currentPage, selectedBatch, modalSearch, modalPage>>
draftVars == <<currentView, formRows, draft, posts>>
browserVars == <<registryVars, rendererVars, pageVars, draftVars>>
vars == <<serverVars, browserVars>>

\* A memo or a component that has not been evaluated.
NotRendered == [kind |-> "not rendered"]

\* The browser side before any page of the registry is rendered.
RegistryClosed ==
  /\ list = <<>>
  /\ searchTerm = ""
  /\ groups = NotRendered
  /\ sorted = NotRendered

\* The archive on its first page, no batch opened.
PageClosed ==
  /\ currentPage = 1
  /\ selectedBatch = [kind |-> "null"]
  /\ modalSearch = ""
  /\ modalPage = 1

\* No entry form, no stored draft, no request in flight.
DraftClosed ==
  /\ currentView = "table"
  /\ formRows = <<>>
  /\ draft = [kind |-> "null"]
  /\ posts = <<>>

RenderersClosed ==
  /\ certs = <<>>
  /\ idDocument = NotRendered
  /\ certDocument = NotRendered
  /\ pdfDocument = NotRendered

BrowserClosed ==
  /\ RegistryClosed
  /\ RenderersClosed
  /\ PageClosed
  /\ DraftClosed

\* A table of system_settings without rows.
NoRows == [k \in {} |-> <<>>]

\* req[p].before is the settings table as it was committed when the request
\* arrived: it is read by no route, only by the statement of rollback.
NoReq ==
  [op |-> "none", token |-> NoCookie, certId |-> 0, body |-> NoBody,
   idParam |-> <<>>, username |-> <<>>, password |-> <<>>,
   settings |-> <<>>, idx |-> 0, conn |-> 0, before |-> NoRows]

Response(p, op, token, status, message) ==
  [client |-> p, op |-> op, token |-> token, status |-> status,
   message |-> message, errors |-> <<>>, body |-> NoBody, rows |-> {},
   idParam |-> <<>>, username |-> Undefined, password |-> Undefined,
   user |-> {}, setCookie |-> {}, settings |-> <<>>]

NoResponse == Response(0, "none", NoCookie, 0, "")

\* Mutation of CertRow: the age column is left out of the statement.
CertRow_NoAge(id, sanitized) ==
  [id               |-> id,
   participant_name |-> sanitized.participant_name,
   training_type    |-> sanitized.training_type,
   training_date    |-> sanitized.training_date,
   venue            |-> sanitized.venue,
   facility         |-> sanitized.facility,
   participant_type |-> sanitized.participant_type,
   age              |-> Null,
   position         |-> sanitized.position]

\* A stored row of certificates: the serial id and the 8 inserted columns.
CertRow(id, sanitized) ==
  [id               |-> id,
   participant_name |-> sanitized.participant_name,
   training_type    |-> sanitized.training_type,
   training_date    |-> sanitized.training_date,
   venue            |-> sanitized.venue,
   facility         |-> sanitized.facility,
   participant_type |-> sanitized.participant_type,
   age              |-> sanitized.age,
   position         |-> sanitized.position]

RowsWithId(id) == {r \in certificates : r.id = id}

Hash(password) == [bcrypt |-> password]

AdminName == <<"a", "d", "m", "i", "n">>
AdminPass == <<"P", "a", "s", "s", "w", "0", "r", "d">>

\* The account that exists when the certificate and settings routes are used.
AdminRow ==
  [id |-> 1, username |-> AdminName, password |-> Hash(AdminPass),
   created_at |-> 1]


(***************************************************************************)
(* Certificate routes                                                      *)
(***************************************************************************)
Finish(p, response) ==
  /\ pc' = [pc EXCEPT ![p] = "idle"]
  /\ req' = [req EXCEPT ![p] = NoReq]
  /\ last' = response

\* The outcome of validating and sanitizing a body, shared by POST and PUT:
\* "throw" is a TypeError caught by the route's catch block.
BodyOutcome(data) ==
  IF ValidateThrows(data) THEN "throw"
  ELSE IF ~validateCertificateData(data).valid THEN "invalid"
  ELSE IF SanitizeThrows(data) THEN "throw"
  ELSE "ok"

\* router.post("/certificates"): no middleware; validate, sanitize, INSERT.
PostCertificate(p, data) ==
  /\ pc[p] = "idle"
  /\ UNCHANGED <<cookie, users, dbVars>>
  /\ LET r == Response(p, "post_certificate", cookie[p], 0, "")
     IN CASE BodyOutcome(data) = "throw" ->
               /\ Finish(p, [r EXCEPT !.status = 500, !.body = data,
                               !.message = "Failed to create certificate"])
               /\ UNCHANGED <<certificates, nextCertId>>
          [] BodyOutcome(data) = "invalid" ->
               /\ Finish(p, [r EXCEPT !.status = 400, !.body = data,
                               !.message = "Validation failed",
                               !.errors = validateCertificateData(data).errors])
               /\ UNCHANGED <<certificates, nextCertId>>
          [] OTHER ->
               LET row == CertRow(nextCertId, sanitizeCertificateData(data))
               IN /\ nextCertId <= MaxCerts
                  /\ certificates' = certificates \cup {row}
                  /\ nextCertId' = nextCertId + 1
                  /\ Finish(p, [r EXCEPT !.status = 201, !.body = data,
                                  !.rows = {row}])

\* router.put("/certificates/:id") up to its UPDATE statement: parse the
\* id, SELECT the row, validate and sanitize the body.
PutSelect(p, idParam, data) ==
  /\ pc[p] = "idle"
  /\ UNCHANGED <<cookie, users, certVars, dbVars>>
  /\ LET certId == parseInt(Str(idParam))
         r == [Response(p, "put_certificate", cookie[p], 0, "")
                 EXCEPT !.body = data, !.idParam = idParam]
     IN CASE certId.nan ->
               Finish(p, [r EXCEPT !.status = 400,
                            !.message = "Invalid certificate ID"])
          [] ~certId.nan /\ RowsWithId(certId.n) = {} ->
               Finish(p, [r EXCEPT !.status = 404,
                            !.message = "Certificate not found"])
          [] ~certId.nan /\ RowsWithId(certId.n) # {}
             /\ BodyOutcome(data) = "throw" ->
               Finish(p, [r EXCEPT !.status = 500, !.message = "err.message"])
          [] ~certId.nan /\ RowsWithId(certId.n) # {}
             /\ BodyOutcome(data) = "invalid" ->
               Finish(p, [r EXCEPT !.status = 400,
                            !.message = "Validation failed",
                            !.errors = validateCertificateData(data).errors])
          [] OTHER ->
               /\ pc' = [pc EXCEPT ![p] = "put_update"]
               /\ req' = [req EXCEPT ![p] =
                            [NoReq EXCEPT !.op = "put_certificate",
                               !.token = cookie[p], !.certId = certId.n,
                               !.idParam = idParam, !.body = data]]
               /\ UNCHANGED last

\* Mutation of PutUpdate: a field that the body omits keeps its stored value.
PutUpdate_KeepsOmitted(p) ==
  /\ pc[p] = "put_update"
  /\ UNCHANGED <<cookie, users, nextCertId, dbVars>>
  /\ LET hit == RowsWithId(req[p].certId)
         sent == CertRow(req[p].certId, sanitizeCertificateData(req[p].body))
         merged == { [f \in DOMAIN old |->
                        IF f \in CertFields /\ req[p].body[f] = Undefined
                        THEN old[f] ELSE sent[f]] : old \in hit }
         r == [Response(p, "put_certificate", req[p].token, 200, "")
                 EXCEPT !.body = req[p].body, !.idParam = req[p].idParam]
     IN /\ certificates' = (certificates \ hit) \cup merged
        /\ Finish(p, [r EXCEPT !.rows = merged])

\* The UPDATE ... WHERE id = $9 RETURNING * of the PUT route and its answer
\* res.json(updated.rows[0]).
PutUpdate(p) ==
  /\ pc[p] = "put_update"
  /\ UNCHANGED <<cookie, users, nextCertId, dbVars>>
  /\ LET row == CertRow(req[p].certId, sanitizeCertificateData(req[p].body))
         hit == RowsWithId(req[p].certId)
         r == [Response(p, "put_certificate", req[p].token, 200, "")
                 EXCEPT !.body = req[p].body, !.idParam = req[p].idParam]
     IN /\ certificates' =
             IF hit = {} THEN certificates
             ELSE (certificates \ hit) \cup {row}
        /\ Finish(p, [r EXCEPT !.rows = IF hit = {} THEN {} ELSE {row}])

\* router.delete("/certificates/:id", protect, ...) up to its DELETE
\* statement.
DeleteSelect(p, idParam) ==
  /\ pc[p] = "idle"
  /\ UNCHANGED <<cookie, users, certVars, dbVars>>
  /\ LET certId == parseInt(Str(idParam))
         r == [Response(p, "delete_certificate", cookie[p], 0, "")
                 EXCEPT !.idParam = idParam]
     IN CASE ~Authorized(cookie[p]) ->
               Finish(p, [r EXCEPT !.status = 401,
                            !.message = "Not authorized"])
          [] Authorized(cookie[p]) /\ certId.nan ->
               Finish(p, [r EXCEPT !.status = 400,
                            !.message = "Invalid certificate ID"])
          [] Authorized(cookie[p]) /\ ~certId.nan
             /\ RowsWithId(certId.n) = {} ->
               Finish(p, [r EXCEPT !.status = 404,
                            !.message = "Certificate not found"])
          [] OTHER ->
               /\ pc' = [pc EXCEPT ![p] = "delete_delete"]
               /\ req' = [req EXCEPT ![p] =
                            [NoReq EXCEPT !.op = "delete_certificate",
                               !.token = cookie[p], !.certId = certId.n,
                               !.idParam = idParam]]
               /\ UNCHANGED last

\* The DELETE FROM certificates WHERE id = $1 of the DELETE route.
DeleteDelete(p) ==
  /\ pc[p] = "delete_delete"
  /\ UNCHANGED <<cookie, users, nextCertId, dbVars>>
  /\ certificates' = certificates \ RowsWithId(req[p].certId)
  /\ Finish(p, [Response(p, "delete_certificate", req[p].token, 200,
                         "Certificate deleted successfully")
                  EXCEPT !.idParam = req[p].idParam])

\* router.get("/certificates"): SELECT * FROM certificates.
GetCertificates(p) ==
  /\ pc[p] = "idle"
  /\ UNCHANGED <<cookie, users, certVars, dbVars>>
  /\ Finish(p, [Response(p, "get_certificates", cookie[p], 200, "")
                  EXCEPT !.rows = certificates])


(***************************************************************************)
(* Username and password validators                                        *)
(***************************************************************************)
PASSWORD_MIN_LENGTH == 8
USERNAME_MIN_LENGTH == 3
USERNAME_MAX_LENGTH == 50

UpperCase ==
  {"A", "B", "C", "D", "E", "F", "G", "H", "I", "J", "K", "L", "M",
   "N", "O", "P", "Q", "R", "S", "T", "U", "V", "W", "X", "Y", "Z"}

LowerCase ==
  {"a", "b", "c", "d", "e", "f", "g", "h", "i", "j", "k", "l", "m",
   "n", "o", "p", "q", "r", "s", "t", "u", "v", "w", "x", "y", "z"}

\* /^[a-zA-Z0-9_]+$/
IsWordChar(c) == c \in UpperCase \/ c \in LowerCase \/ IsDigit(c) \/ c = "_"

validateUsername(username) ==
  LET trimmed == Trim(username.s)
      no(m) == [valid |-> FALSE, message |-> m, value |-> <<>>]
  IN IF ~Truthy(username) \/ username.t # "string"
       THEN no("Username is required")
     ELSE IF Len(trimmed) < USERNAME_MIN_LENGTH
       THEN no("Username must be at least 3 characters")
     ELSE IF Len(trimmed) > USERNAME_MAX_LENGTH
       THEN no("Username must be less than 50 characters")
     ELSE IF \E i \in 1..Len(trimmed) : ~IsWordChar(trimmed[i])
       THEN no("Username can only contain letters, numbers, and underscores")
     ELSE [valid |-> TRUE, message |-> "", value |-> trimmed]

\* Mutation of validatePassword: the rule of the digit is left out.
validatePassword_NoDigitRule(password) ==
  LET pw == password.s
      no(m) == [valid |-> FALSE, message |-> m]
  IN IF ~Truthy(password) \/ password.t # "string"
       THEN no("Password is required")
     ELSE IF Len(pw) < PASSWORD_MIN_LENGTH
       THEN no("Password must be at least 8 characters")
     ELSE IF ~\E i \in 1..Len(pw) : pw[i] \in UpperCase
       THEN no("Password must contain at least one uppercase letter")
     ELSE IF ~\E i \in 1..Len(pw) : pw[i] \in LowerCase
       THEN no("Password must contain at least one lowercase letter")
     ELSE [valid |-> TRUE, message |-> ""]

validatePassword(password) ==
  LET pw == password.s
      no(m) == [valid |-> FALSE, message |-> m]
  IN IF ~Truthy(password) \/ password.t # "string"
       THEN no("Password is required")
     ELSE IF Len(pw) < PASSWORD_MIN_LENGTH
       THEN no("Password must be at least 8 characters")
     ELSE IF ~\E i \in 1..Len(pw) : pw[i] \in UpperCase
       THEN no("Password must contain at least one uppercase letter")
     ELSE IF ~\E i \in 1..Len(pw) : pw[i] \in LowerCase
       THEN no("Password must contain at least one lowercase letter")
     ELSE IF ~\E i \in 1..Len(pw) : IsDigit(pw[i])
       THEN no("Password must contain at least one number")
     ELSE [valid |-> TRUE, message |-> ""]

(***************************************************************************)
(* Authentication routes                                                   *)
(***************************************************************************)
MaxUsers == 2

\* Mutation of UsersNamed: the WHERE clause is left out.
UsersNamed_Any(name) == users

\* SELECT * FROM users WHERE username = $1
UsersNamed(name) == {u \in users : u.username = name}

\* The user object of a response: id, username, created_at, never the hash.
UserView(u) ==
  [id |-> u.id, username |-> u.username, created_at |-> u.created_at]

\* router.post("/register") up to its INSERT: both validators, then the
\* SELECT that looks for the username.
RegisterSelect(p, username, password) ==
  /\ pc[p] = "idle"
  /\ UNCHANGED <<cookie, users, certVars, dbVars>>
  /\ LET uv == validateUsername(username)
         pv == validatePassword(password)
         r == [Response(p, "register", cookie[p], 400, "")
                 EXCEPT !.username = username, !.password = password]
     IN CASE ~uv.valid -> Finish(p, [r EXCEPT !.message = uv.message])
          [] uv.valid /\ ~pv.valid ->
               Finish(p, [r EXCEPT !.message = pv.message])
          [] uv.valid /\ pv.valid /\ UsersNamed(uv.value) # {} ->
               Finish(p, [r EXCEPT !.message = "Username already exists"])
          [] OTHER ->
               /\ pc' = [pc EXCEPT ![p] = "register_insert"]
               /\ req' = [req EXCEPT ![p] =
                            [NoReq EXCEPT !.op = "register",
                               !.token = cookie[p],
                               !.username = uv.value, !.password = password.s]]
               /\ UNCHANGED last

\* The INSERT INTO users of the register route, run after bcrypt.hash, and
\* the answer.  The row is new, or the username was taken meanwhile: then a
\* unique index on users.username makes the INSERT fail (caught: 500), and a
\* table without one takes the second row.
RegisterInsert(p, uniqueIndex) ==
  /\ pc[p] = "register_insert"
  /\ UNCHANGED <<certVars, dbVars>>
  /\ LET row == [id |-> Cardinality(users) + 1,
                 username |-> req[p].username,
                 password |-> Hash(req[p].password),
                 created_at |-> Cardinality(users) + 1]
         r == [Response(p, "register", req[p].token, 0, "")
                 EXCEPT !.username = Str(req[p].username),
                        !.password = Str(req[p].password)]
     IN IF UsersNamed(req[p].username) # {} /\ uniqueIndex
        THEN /\ UNCHANGED <<users, cookie>>
             /\ Finish(p, [r EXCEPT !.status = 500,
                             !.message = "Server error during registration"])
        ELSE /\ Cardinality(users) < MaxUsers
             /\ users' = users \cup {row}
             /\ cookie' = [cookie EXCEPT ![p] = generateToken(row.id)]
             /\ Finish(p, [r EXCEPT !.status = 201,
                             !.user = {UserView(row)},
                             !.setCookie = {generateToken(row.id)}])

\* router.post("/login")
Login(p, username, password) ==
  /\ pc[p] = "idle"
  /\ UNCHANGED <<users, certVars, dbVars>>
  /\ LET r == [Response(p, "login", cookie[p], 0, "")
                 EXCEPT !.username = username, !.password = password]
         found == IF username.t = "string"
                  THEN UsersNamed(Trim(username.s)) ELSE {}
     IN CASE ~Truthy(username) \/ ~Truthy(password) ->
               /\ UNCHANGED cookie
               /\ Finish(p, [r EXCEPT !.status = 400,
                               !.message = "All fields are required"])
          [] Truthy(username) /\ Truthy(password) /\ username.t # "string" ->
               \* username.trim is not a function
               /\ UNCHANGED cookie
               /\ Finish(p, [r EXCEPT !.status = 500,
                               !.message = "Server error during login"])
          [] Truthy(username) /\ Truthy(password) /\ username.t = "string"
             /\ found = {} ->
               /\ UNCHANGED cookie
               /\ Finish(p, [r EXCEPT !.status = 401,
                               !.message = "Invalid credentials"])
          [] OTHER ->
               \E userData \in found :
                 IF password.t # "string"
                 THEN \* bcrypt.compare rejects a password that is no string
                      /\ UNCHANGED cookie
                      /\ Finish(p, [r EXCEPT !.status = 500,
                                      !.message = "Server error during login"])
                 ELSE IF userData.password = Hash(password.s)
                 THEN /\ cookie' = [cookie EXCEPT
                                      ![p] = generateToken(userData.id)]
                      /\ Finish(p, [r EXCEPT !.status = 200,
                                      !.user = {UserView(userData)},
                                      !.setCookie =
                                         {generateToken(userData.id)}])
                 ELSE /\ UNCHANGED cookie
                      /\ Finish(p, [r EXCEPT !.status = 401,
                                      !.message = "Invalid credentials"])

\* router.post("/logout"): res.clearCookie("token", {...COOKIE_OPTIONS}).
\* COOKIE_OPTIONS carries maxAge.  A framework version whose clearCookie
\* drops maxAge sends an expired cookie and the client deletes its entry
\* (maxAgeKept = FALSE); a version that passes the options on to res.cookie
\* sends token="" with a 30 day lifetime and the client keeps that empty
\* entry (maxAgeKept = TRUE).
Logout(p, maxAgeKept) ==
  /\ pc[p] = "idle"
  /\ UNCHANGED <<users, certVars, dbVars>>
  /\ cookie' = [cookie EXCEPT
                  ![p] = IF maxAgeKept THEN EmptyCookie ELSE NoCookie]
  /\ Finish(p, [Response(p, "logout", cookie[p], 200,
                         "Identity De-authorized")
                  EXCEPT !.setCookie =
                    {IF maxAgeKept THEN EmptyCookie ELSE NoCookie}])

\* router.get("/me", protect, ...)
Me(p) ==
  /\ pc[p] = "idle"
  /\ UNCHANGED <<cookie, users, certVars, dbVars>>
  /\ IF Authorized(cookie[p])
     THEN Finish(p, [Response(p, "me", cookie[p], 200, "")
                       EXCEPT !.user = {UserView(u) : u \in
                                         {x \in users : x.id = cookie[p].id}}])
     ELSE Finish(p, Response(p, "me", cookie[p], 401, "Not authorized"))


(***************************************************************************)
(* The connection pool and the settings table                              *)
(*                                                                         *)
(* pool.query(text) takes a connection out of the pool (the idle one       *)
(* released last, or a new one when none is idle), runs the one statement  *)
(* on it and releases it.  At most one query per client is in flight, so   *)
(* the pool never holds more than NumClients connections and its limit of  *)
(* connections is never reached.  A connection is in use while a request   *)
(* names it in req[p].conn.                                                *)
(***************************************************************************)
ConnIds == 1..NumClients

ClosedConn == [opened |-> FALSE, tx |-> "none", writes |-> NoRows]

Upsert(table, key, value) ==
  [k \in DOMAIN table \cup {key} |-> IF k = key THEN value ELSE table[k]]

\* What a statement run on connection c reads: the committed rows, and the
\* rows written by the transaction open on c.
Visible(c) ==
  [k \in DOMAIN system_settings \cup DOMAIN conns[c].writes |->
     IF k \in DOMAIN conns[c].writes THEN conns[c].writes[k]
     ELSE system_settings[k]]

\* Another connection's unfinished transaction holds the row lock of key.
Locked(c, key) ==
  \E d \in ConnIds \ {c} :
    conns[d].tx # "none" /\ key \in DOMAIN conns[d].writes

QueryPhases ==
  {"settings_begin", "settings_upsert", "settings_commit",
   "settings_rollback", "settings_select"}

\* pool.connect on behalf of the query client p is about to run.
AcquireConn(p) ==
  /\ pc[p] \in QueryPhases
  /\ req[p].conn = 0
  /\ UNCHANGED <<pc, last, cookie, users, certVars, system_settings>>
  /\ IF idleStack # <<>>
     THEN /\ req' = [req EXCEPT ![p].conn = idleStack[Len(idleStack)]]
          /\ idleStack' = SubSeq(idleStack, 1, Len(idleStack) - 1)
          /\ UNCHANGED conns
     ELSE LET c == CHOOSE d \in ConnIds :
                     /\ ~conns[d].opened
                     /\ \A e \in ConnIds : ~conns[e].opened => d <= e
          IN /\ req' = [req EXCEPT ![p].conn = c]
             /\ conns' = [conns EXCEPT ![c].opened = TRUE]
             /\ UNCHANGED idleStack

\* client.release(): the connection goes back on top of the idle ones.
Release(c) == idleStack' = Append(idleStack, c)

validKeys ==
  <<"off1_name", "off1_pos", "off1_sig", "off2_name", "off2_pos",
    "off3_name", "off3_pos">>

IsValidKey(key) == \E i \in 1..Len(validKeys) : validKeys[i] = key

\* Mutation of invalidKeys: only the first key of the body is looked at.
invalidKeys_FirstOnly(settings) ==
  IF settings = <<>> \/ IsValidKey(Head(settings).key) THEN <<>>
  ELSE <<Head(settings).key>>

\* keys.filter((key) => !validKeys.includes(key))
RECURSIVE invalidKeys(_)
invalidKeys(settings) ==
  IF settings = <<>> THEN <<>>
  ELSE (IF IsValidKey(Head(settings).key) THEN <<>>
        ELSE <<Head(settings).key>>) \o invalidKeys(Tail(settings))

\* value || ""
SettingValue(v) == IF Truthy(v) THEN v.s ELSE <<>>

\* router.post("/settings", protect, ...) up to its first query.  The body
\* is the sequence of its keys, in the order of Object.keys, with values.
PostSettingsStart(p, settings) ==
  /\ pc[p] = "idle"
  /\ UNCHANGED <<cookie, users, certVars, dbVars>>
  /\ LET r == [Response(p, "post_settings", cookie[p], 0, "")
                 EXCEPT !.settings = settings]
     IN CASE ~Authorized(cookie[p]) ->
               Finish(p, [r EXCEPT !.status = 401,
                            !.message = "Not authorized"])
          [] Authorized(cookie[p]) /\ settings = <<>> ->
               Finish(p, [r EXCEPT !.status = 400,
                            !.message = "No settings provided"])
          [] Authorized(cookie[p]) /\ settings # <<>>
             /\ invalidKeys(settings) # <<>> ->
               Finish(p, [r EXCEPT !.status = 400,
                            !.message = "Invalid setting keys",
                            !.errors = invalidKeys(settings)])
          [] OTHER ->
               /\ pc' = [pc EXCEPT ![p] = "settings_begin"]
               /\ req' = [req EXCEPT ![p] =
                            [NoReq EXCEPT !.op = "post_settings",
                               !.token = cookie[p],
                               !.settings = settings, !.idx = 1,
                               !.before = system_settings]]
               /\ UNCHANGED last

SettingsFailed(p) ==
  [Response(p, "post_settings", req[p].token, 500,
            "Failed to update system settings")
     EXCEPT !.settings = req[p].settings]

Continue(p, phase, idx) ==
  /\ pc' = [pc EXCEPT ![p] = phase]
  /\ req' = [req EXCEPT ![p].conn = 0, ![p].idx = idx]
  /\ UNCHANGED last

\* await pool.query("BEGIN").  On a connection whose transaction is
\* aborted the statement is refused, and the error reaches the outer catch.
RunBegin(p) ==
  /\ pc[p] = "settings_begin"
  /\ req[p].conn # 0
  /\ UNCHANGED <<cookie, users, certVars, system_settings>>
  /\ Release(req[p].conn)
  /\ LET c == req[p].conn
     IN IF conns[c].tx = "aborted"
        THEN /\ UNCHANGED conns
             /\ Finish(p, SettingsFailed(p))
        ELSE /\ conns' = [conns EXCEPT ![c].tx = "open"]
             /\ Continue(p, "settings_upsert", 1)

\* One INSERT ... ON CONFLICT DO UPDATE of the loop.  It fails when the
\* database refuses it (fails), or when the connection's transaction is
\* aborted; a failure inside a transaction aborts the transaction.  Outside a
\* transaction the statement commits by itself.
RunUpsert(p, fails) ==
  /\ pc[p] = "settings_upsert"
  /\ req[p].conn # 0
  /\ UNCHANGED <<cookie, users, certVars>>
  /\ LET c == req[p].conn
         key == req[p].settings[req[p].idx].key
         value == SettingValue(req[p].settings[req[p].idx].value)
         next == IF req[p].idx = Len(req[p].settings)
                 THEN "settings_commit" ELSE "settings_upsert"
     IN /\ ~Locked(c, key)
        /\ Release(c)
        /\ CASE fails \/ conns[c].tx = "aborted" ->
                  /\ conns' = [conns EXCEPT ![c].tx =
                                 IF @ = "none" THEN "none" ELSE "aborted"]
                  /\ UNCHANGED system_settings
                  /\ Continue(p, "settings_rollback", req[p].idx)
             [] ~fails /\ conns[c].tx = "open" ->
                  /\ conns' = [conns EXCEPT ![c].writes =
                                 Upsert(@, key, value)]
                  /\ UNCHANGED system_settings
                  /\ Continue(p, next, req[p].idx + 1)
             [] OTHER ->
                  /\ system_settings' = Upsert(system_settings, key, value)
                  /\ UNCHANGED conns
                  /\ Continue(p, next, req[p].idx + 1)

\* The end of the transaction open on connection c, if any.
Commit(c) ==
  /\ system_settings' =
       IF conns[c].tx = "open" THEN Visible(c) ELSE system_settings
  /\ conns' = [conns EXCEPT ![c].tx = "none", ![c].writes = NoRows]

Rollback(c) ==
  /\ UNCHANGED system_settings
  /\ conns' = [conns EXCEPT ![c].tx = "none", ![c].writes = NoRows]

\* await pool.query("COMMIT") and the answer 200.
RunCommit(p) ==
  /\ pc[p] = "settings_commit"
  /\ req[p].conn # 0
  /\ UNCHANGED <<cookie, users, certVars>>
  /\ Release(req[p].conn)
  /\ Commit(req[p].conn)
  /\ Finish(p, [Response(p, "post_settings", req[p].token, 200,
                         "System settings updated successfully")
                  EXCEPT !.settings = req[p].settings])

\* await pool.query("ROLLBACK"); throw err: the answer 500.
RunRollback(p) ==
  /\ pc[p] = "settings_rollback"
  /\ req[p].conn # 0
  /\ UNCHANGED <<cookie, users, certVars>>
  /\ Release(req[p].conn)
  /\ Rollback(req[p].conn)
  /\ Finish(p, SettingsFailed(p))

\* router.get("/settings") up to its query.
GetSettingsStart(p) ==
  /\ pc[p] = "idle"
  /\ UNCHANGED <<last, cookie, users, certVars, dbVars>>
  /\ pc' = [pc EXCEPT ![p] = "settings_select"]
  /\ req' = [req EXCEPT ![p] = [NoReq EXCEPT !.op = "get_settings",
                                               !.token = cookie[p]]]

\* WHERE setting_key LIKE 'off%'
LikeOff(key) == IsValidKey(key) \/ key = "off9_name"

\* The SELECT of GET /settings and the answer: the rows as an object, a
\* sequence of keys with values here, in the order of validKeys.
RECURSIVE SettingsObject(_, _)
SettingsObject(table, keys) ==
  IF keys = <<>> THEN <<>>
  ELSE (IF Head(keys) \in DOMAIN table /\ LikeOff(Head(keys))
        THEN <<[key |-> Head(keys), value |-> Str(table[Head(keys)])]>>
        ELSE <<>>) \o SettingsObject(table, Tail(keys))

RunGetSettings(p) ==
  /\ pc[p] = "settings_select"
  /\ req[p].conn # 0
  /\ UNCHANGED <<cookie, users, certVars, system_settings, conns>>
  /\ Release(req[p].conn)
  /\ LET c == req[p].conn
         r == Response(p, "get_settings", req[p].token, 0, "")
     IN IF conns[c].tx = "aborted"
        THEN Finish(p, [r EXCEPT !.status = 500,
                          !.message = "Failed to fetch system settings"])
        ELSE Finish(p, [r EXCEPT !.status = 200,
                          !.settings = SettingsObject(Visible(c), validKeys)])

\* Request bodies of POST /settings.
Setting(key, value) == [key |-> key, value |-> value]

SettingsBodies ==
  { <<Setting("off1_name", Str(<<"A">>)), Setting("off1_pos", Str(<<"A">>))>>,
    <<Setting("off1_name", Null), Setting("off1_pos", Null)>>,
    <<Setting("off3_name", Str(<<"C">>)), Setting("off9_name", Str(<<"C">>))>>,
    <<>> }

(***************************************************************************)
(* Specification of the settings routes: client 1 is logged in, the other  *)
(* clients are not; all read and update the settings concurrently.         *)
(***************************************************************************)
InitSettings ==
  /\ pc = [p \in Clients |-> "idle"]
  /\ req = [p \in Clients |-> NoReq]
  /\ last = NoResponse
  /\ cookie = [p \in Clients |->
                 IF p = 1 THEN generateToken(1) ELSE NoCookie]
  /\ users = {AdminRow}
  /\ certificates = {}
  /\ nextCertId = 1
  /\ system_settings = NoRows
  /\ conns = [c \in ConnIds |-> ClosedConn]
  /\ idleStack = <<>>
  /\ BrowserClosed

NextSettings ==
  /\ UNCHANGED browserVars
  /\ \E p \in Clients :
       \/ \E b \in SettingsBodies : PostSettingsStart(p, b)
       \/ GetSettingsStart(p)
       \/ AcquireConn(p)
       \/ RunBegin(p)
       \/ \E f \in BOOLEAN : RunUpsert(p, f)
       \/ RunCommit(p)
       \/ RunRollback(p)
       \/ RunGetSettings(p)

SpecSettings == InitSettings /\ [][NextSettings]_vars

(***************************************************************************)
(* Specification of the certificate routes: an account exists, and one     *)
(* client logs in and out and sends certificate requests one after the     *)
(* other, each with the cookie it holds.                                   *)
(***************************************************************************)
WrongPass == <<"P", "a", "s", "s", "w", "0", "r", "t">>

InitCert ==
  /\ pc = [p \in Clients |-> "idle"]
  /\ req = [p \in Clients |-> NoReq]
  /\ last = NoResponse
  /\ cookie = [p \in Clients |-> NoCookie]
  /\ users = {AdminRow}
  /\ certificates = {}
  /\ nextCertId = 1
  /\ system_settings = NoRows
  /\ conns = [c \in ConnIds |-> ClosedConn]
  /\ idleStack = <<>>
  /\ BrowserClosed

NextCert ==
  /\ UNCHANGED browserVars
  /\ \E p \in {1} :
       \/ \E pw \in {AdminPass, WrongPass} : Login(p, Str(AdminName), Str(pw))
       \/ \E k \in BOOLEAN : Logout(p, k)
       \/ \E d \in CertBodies : PostCertificate(p, d)
       \/ \E i \in IdParams, d \in CertBodies : PutSelect(p, i, d)
       \/ PutUpdate(p)
       \/ \E i \in IdParams : DeleteSelect(p, i)
       \/ DeleteDelete(p)
       \/ GetCertificates(p)

SpecCert == InitCert /\ [][NextCert]_vars


(***************************************************************************)
(* Specification of the authentication routes: clients register, log in    *)
(* and out concurrently and use the protected routes.                      *)
(***************************************************************************)
\* users.username carries a unique index.  (Without one, the INSERT of a
\* registration that lost the race stores a second row instead of failing.)
UsernameIsUnique == TRUE

Ana == <<"a", "n", "a">>
Bob == <<"b", "o", "b">>
GoodPass == <<"S", "e", "c", "r", "e", "t", "4", "2">>

Credentials(username, password) ==
  [username |-> username, password |-> password]

RegisterBodies ==
  { Credentials(Str(Ana), Str(AdminPass)),
    Credentials(Str(<<" ">> \o Ana \o <<" ">>), Str(GoodPass)),
    Credentials(Str(Bob), Str(GoodPass)),
    Credentials(Str(<<"a", "n">>), Str(GoodPass)),
    Credentials(Str(<<"a", "-", "a">>), Str(GoodPass)),
    Credentials(Undefined, Str(GoodPass)),
    Credentials(Str(Ana), Str(<<"s", "e", "c", "r", "e", "t", "4", "2">>)),
    Credentials(Str(Ana), Str(<<"S", "4", "a">>)) }

LoginBodies ==
  { Credentials(Str(Ana), Str(AdminPass)),
    Credentials(Str(<<" ">> \o Ana), Str(GoodPass)),
    Credentials(Str(Bob), Str(AdminPass)),
    Credentials(Str(Ana), Undefined),
    Credentials(Str(<<>>), Str(GoodPass)),
    Credentials(Num(7), Str(GoodPass)),
    Credentials(Str(Ana), Num(7)) }

InitAuth ==
  /\ pc = [p \in Clients |-> "idle"]
  /\ req = [p \in Clients |-> NoReq]
  /\ last = NoResponse
  /\ cookie = [p \in Clients |-> NoCookie]
  /\ users = {}
  /\ certificates = {}
  /\ nextCertId = 1
  /\ system_settings = NoRows
  /\ conns = [c \in ConnIds |-> ClosedConn]
  /\ idleStack = <<>>
  /\ BrowserClosed

NextAuth ==
  /\ UNCHANGED browserVars
  /\ \E p \in Clients :
       \/ \E b \in RegisterBodies : RegisterSelect(p, b.username, b.password)
       \/ RegisterInsert(p, UsernameIsUnique)
       \/ \E b \in LoginBodies : Login(p, b.username, b.password)
       \/ \E k \in BOOLEAN : Logout(p, k)
       \/ Me(p)
       \/ PostCertificate(p, Base)
       \/ \E i \in IdParams : DeleteSelect(p, i)
       \/ DeleteDelete(p)

SpecAuth == InitAuth /\ [][NextAuth]_vars

(***************************************************************************)
(* Specification of registration alone: requests that meet or break each   *)
(* rule of the two validators, sent by clients concurrently.               *)
(***************************************************************************)
RegisterRuleBodies ==
  RegisterBodies \cup
  { Credentials(Str([i \in 1..USERNAME_MAX_LENGTH |-> "a"]), Str(GoodPass)),
    Credentials(Str([i \in 1..(USERNAME_MAX_LENGTH + 1) |-> "a"]),
                Str(GoodPass)),
    Credentials(Num(7), Str(GoodPass)),
    Credentials(Str(<<" ", " ", " ", " ">>), Str(GoodPass)),
    Credentials(Str(Bob), Str(<<"S", "E", "C", "R", "E", "T", "4", "2">>)),
    Credentials(Str(Bob), Str(<<"S", "e", "c", "r", "e", "t", "x", "x">>)),
    Credentials(Str(Bob), Num(12345678)),
    Credentials(Str(Bob), Undefined),
    Credentials(Str(<<"a", "n">>), Str(<<"S", "4", "a">>)) }

NextRegister ==
  /\ UNCHANGED browserVars
  /\ \E p \in Clients :
       \/ \E b \in RegisterRuleBodies :
            RegisterSelect(p, b.username, b.password)
       \/ RegisterInsert(p, UsernameIsUnique)

SpecRegister == InitAuth /\ [][NextRegister]_vars

(***************************************************************************)
(* Claims about the certificate routes (SpecCert)                          *)
(***************************************************************************)
MutatingOps ==
  {"post_certificate", "put_certificate", "delete_certificate",
   "post_settings"}

\* C1: every operation that mutates persisted state (create, update and
\* delete certificate, update settings) is gated by the identity token: a
\* request without a valid token is answered 401 and leaves the certificate
\* and settings tables unchanged.
C1_MutationsGated ==
  [][(/\ last' # last
      /\ last'.op \in MutatingOps
      /\ ~Authorized(last'.token))
     => (/\ last'.status = 401
         /\ certificates' = certificates
         /\ system_settings' = system_settings)]_vars

IsTrimmed(s) == s = <<>> \/ (~IsWs(s[1]) /\ ~IsWs(s[Len(s)]))

OneOf(allowed, v) ==
  v = Null \/ (v.t = "string" /\ \E i \in 1..Len(allowed) : allowed[i] = v.s)

\* C2: after any sequence of POST, PUT and DELETE certificate requests every
\* stored record has a non-empty, trimmed participant_name, a training_type
\* that is one of the 4 allowed values or null, a participant_type that is
\* one of the 2 allowed values or null, and an age that is an integer in
\* 0..120 or null.
C2_StoredRecordsValid ==
  \A r \in certificates :
    /\ r.participant_name.t = "string"
    /\ r.participant_name.s # <<>>
    /\ IsTrimmed(r.participant_name.s)
    /\ OneOf(VALID_TRAINING_TYPES, r.training_type)
    /\ OneOf(VALID_PARTICIPANT_TYPES, r.participant_type)
    /\ \/ r.age = Null
       \/ r.age.t = "number" /\ r.age.n \in 0..120

\* Two records are stored, one of them written by a PUT whose body had a
\* padded name, a numeric string with a suffix as age and no training type.
C2_Witness ==
  /\ last.op = "put_certificate" /\ last.status = 200
  /\ Cardinality(certificates) = 2
  /\ \E r \in certificates :
       /\ r.participant_name = Str(<<"Ben">>)
       /\ r.age = Num(42)
       /\ r.training_type = Null

\* The body's violations, in the order of the validator, as the claim words
\* them.
Blank(v) == ~(v.t = "string" /\ Trim(v.s) # <<>>)

BadChoice(allowed, v) ==
  v.t = "string" /\ v.s # <<>> /\ \A i \in 1..Len(allowed) : allowed[i] # v.s

BadAge(v) ==
  \/ v.t = "number" /\ (v.n < 0 \/ v.n > 120)
  \/ v.t = "string" /\ v.s # <<>>
     /\ (parseInt(v).nan \/ parseInt(v).n < 0 \/ parseInt(v).n > 120)

FailsValidation(data) ==
  /\ data.participant_name.t # "number"
  /\ \/ Blank(data.participant_name)
     \/ BadChoice(VALID_TRAINING_TYPES, data.training_type)
     \/ BadChoice(VALID_PARTICIPANT_TYPES, data.participant_type)
     \/ BadAge(data.age)

Itemized(data, errors) ==
  /\ errors # <<>>
  /\ Blank(data.participant_name)
       <=> errors[1] = "participant_name is required"
  /\ BadAge(data.age)
       <=> errors[Len(errors)] = "age must be a valid number between 0 and 120"
  /\ Len(errors) =
       (IF Blank(data.participant_name) THEN 1 ELSE 0)
       + (IF BadChoice(VALID_TRAINING_TYPES, data.training_type)
          THEN 1 ELSE 0)
       + (IF BadChoice(VALID_PARTICIPANT_TYPES, data.participant_type)
          THEN 1 ELSE 0)
       + (IF BadAge(data.age) THEN 1 ELSE 0)

PutOfExisting(resp) ==
  /\ resp.op = "put_certificate"
  /\ ~parseInt(Str(resp.idParam)).nan
  /\ RowsWithId(parseInt(Str(resp.idParam)).n) # {}

Saved(resp) ==
  /\ resp.op \in {"post_certificate", "put_certificate"}
  /\ resp.status \in {200, 201}
  /\ resp.rows # {}

Fields8(r) == [f \in CertFields |-> r[f]]

\* C10: after a successful POST or PUT with body x the record holds, and a
\* fetch that follows returns, the 8 mutable fields equal to the sanitized
\* form of x; repeating the identical PUT leaves the table as it is.
C10_RoundTrip ==
  [][/\ Saved(last') =>
          \E r \in certificates' :
            /\ last'.rows = {r}
            /\ Fields8(r) = sanitizeCertificateData(last'.body)
     /\ (Saved(last) /\ last'.op = "get_certificates") =>
          \E r \in last'.rows :
            /\ {r} = last.rows
            /\ Fields8(r) = sanitizeCertificateData(last.body)
     /\ \A p \in Clients :
          (/\ pc[p] = "put_update" /\ pc'[p] = "idle"
           /\ Saved(last) /\ last.op = "put_certificate"
           /\ last.body = req[p].body
           /\ \E r \in last.rows : r.id = req[p].certId)
          => (certificates' = certificates /\ last' = last)]_vars

\* A PUT whose body the sanitizer changes (padded name, "42x" as age, blank
\* venue) was answered with the stored record.
C10_Witness ==
  /\ last.op = "put_certificate" /\ last.status = 200
  /\ last.body.participant_name = Str(<<" ", "Ben", " ">>)
  /\ \E r \in certificates :
       /\ last.rows = {r}
       /\ r.participant_name = Str(<<"Ben">>)
       /\ r.age = Num(42)
       /\ r.venue = Null


\* A number, or a string of decimal digits only.
IsNumeric(v) ==
  \/ v.t = "number"
  \/ v.t = "string" /\ v.s # <<>> /\ \A i \in 1..Len(v.s) : IsDigit(v.s[i])

\* C11: a submitted age that is present and is an integer n in 0..120,
\* given as a number or as a numeric string, is stored as n; only an absent
\* or empty age is stored as null.
C11_AgeStoredAsParsed ==
  [][Saved(last') =>
       \A r \in last'.rows :
         LET age == last'.body.age
         IN /\ (AgePresent(age) /\ IsNumeric(age)) =>
                 r.age = Num(parseInt(age).n)
            /\ r.age = Null => ~AgePresent(age)]_vars

PassesValidation(data) ==
  ~ValidateThrows(data) /\ validateCertificateData(data).valid

TrimmedOrNull(v) ==
  v = Null \/ (v.t = "string" /\ v.s # <<>> /\ IsTrimmed(v.s))

\* C12: for every body that passes validation the sanitized mapping, which
\* the POST stores and returns with its id, has exactly the 8 allow-listed
\* fields, so every other field of the body is dropped, and each of its
\* text fields is null or a non-empty string without leading or trailing
\* whitespace.
C12_SanitizedAllowListed ==
  [][(/\ last' # last
      /\ last'.op = "post_certificate"
      /\ PassesValidation(last'.body))
     => \E r \in last'.rows :
          /\ DOMAIN r = CertFields \cup {"id"}
          /\ r.id \in Nat
          /\ \A f \in CertFields \ {"age"} : TrimmedOrNull(r[f])]_vars

\* The constraints of a certificate body, for field values of any type.
NameViolated(data) == Blank(data.participant_name)

ChoiceViolated(allowed, v) == Truthy(v) /\ ~OneOf(allowed, v)

NumViolated(data) ==
  (IF NameViolated(data) THEN 1 ELSE 0)
  + (IF ChoiceViolated(VALID_TRAINING_TYPES, data.training_type)
     THEN 1 ELSE 0)
  + (IF ChoiceViolated(VALID_PARTICIPANT_TYPES, data.participant_type)
     THEN 1 ELSE 0)
  + (IF BadAge(data.age) THEN 1 ELSE 0)

\* C13: the validation of a certificate body reports every violated
\* constraint in one result, and whatever the types of the body's values a
\* violation is answered 400 with the errors, never raised and answered 500.
C13_AllViolationsReported ==
  [][(/\ last' # last
      /\ last'.op = "post_certificate"
      /\ NumViolated(last'.body) > 0)
     => /\ last'.status = 400
        /\ Len(last'.errors) = NumViolated(last'.body)]_vars

(***************************************************************************)
(* Claims about the settings routes (SpecSettings)                         *)
(***************************************************************************)
RecognizedKeys ==
  {"off1_name", "off1_pos", "off1_sig", "off2_name", "off2_pos",
   "off3_name", "off3_pos"}

Unrecognized(settings) ==
  {settings[i].key : i \in 1..Len(settings)} \ RecognizedKeys

\* C4: the persisted setting keys are always among the seven recognized
\* keys; a request that passed the gate and contains an unrecognized key is
\* answered 400 naming exactly the invalid keys, and persists none of its
\* keys: no statement is run for it.
C4_OnlyRecognizedKeys ==
  [][/\ DOMAIN system_settings' \subseteq RecognizedKeys
     /\ \A c \in ConnIds : DOMAIN conns'[c].writes \subseteq RecognizedKeys
     /\ (/\ last' # last
         /\ last'.op = "post_settings"
         /\ Authorized(last'.token)
         /\ Unrecognized(last'.settings) # {})
        => (/\ last'.status = 400
            /\ {last'.errors[i] : i \in 1..Len(last'.errors)}
                 = Unrecognized(last'.settings)
            /\ pc[last'.client] = "idle"
            /\ UNCHANGED dbVars)]_vars

\* A body with a recognized and an unrecognized key was refused while other
\* keys are persisted, and its recognized key is not.
C4_Witness ==
  /\ last.op = "post_settings" /\ last.status = 400
  /\ last.errors = <<"off9_name">>
  /\ DOMAIN system_settings = {"off1_name", "off1_pos"}

\* The two keys every update of SettingsBodies writes together, with one
\* value: both absent, or both present and equal.
PairWhole(table) ==
  IF "off1_name" \in DOMAIN table
  THEN "off1_pos" \in DOMAIN table /\ table["off1_pos"] = table["off1_name"]
  ELSE "off1_pos" \notin DOMAIN table

AsTable(object) ==
  [k \in {object[i].key : i \in 1..Len(object)} |->
     (CHOOSE i \in 1..Len(object) : object[i].key = k)]

PairWholeObject(object) ==
  LET at == AsTable(object)
  IN IF "off1_name" \in DOMAIN at
     THEN /\ "off1_pos" \in DOMAIN at
          /\ object[at["off1_pos"]].value = object[at["off1_name"]].value
     ELSE "off1_pos" \notin DOMAIN at

\* C5: a settings update of several keys is atomic to observers: no GET
\* settings observes, and no state without a request in flight contains,
\* only some of the keys of one update applied.
C5_UpdatesAtomic ==
  /\ (last.op = "get_settings" /\ last.status = 200)
       => PairWholeObject(last.settings)
  /\ (\A p \in Clients : pc[p] = "idle") => PairWhole(system_settings)

\* C6: if an upsert inside a multi-key settings update fails, the update is
\* rolled back before the error is surfaced: the request is answered 500 and
\* the persisted settings equal their state before the request.
C6_FailedUpdateRolledBack ==
  [][\A p \in Clients :
       (/\ req[p].op = "post_settings"
        /\ pc'[p] = "idle"
        /\ last'.status = 500)
       => system_settings' = req[p].before]_vars

(***************************************************************************)
(* Claims about the authentication routes (SpecAuth)                       *)
(***************************************************************************)
Accounts(name) == {u \in users : u.username = name}

\* The step in which client p answers a request for op that it handles in
\* one step.
Answers(p, op) ==
  /\ pc[p] = "idle"
  /\ last'.client = p
  /\ last'.op = op
  /\ last' # last

\* C7: duplicate usernames are rejected, also among concurrent
\* registrations: there is at most one account per username, and every
\* registration of a well-formed username that is already taken is answered
\* 400 "Username already exists" and creates no account.
C7_DuplicateUsernamesRejected ==
  [][/\ \A u1, u2 \in users' : u1.username = u2.username => u1 = u2
     /\ \A p \in Clients :
          /\ (/\ pc[p] = "register_insert"
              /\ pc'[p] = "idle"
              /\ Accounts(req[p].username) # {})
             => /\ last'.status = 400
                /\ last'.message = "Username already exists"
                /\ users' = users
          /\ (/\ Answers(p, "register")
              /\ validateUsername(last'.username).valid
              /\ validatePassword(last'.password).valid
              /\ Accounts(Trim(last'.username.s)) # {})
             => /\ last'.status = 400
                /\ last'.message = "Username already exists"
                /\ users' = users]_vars

\* The accounts a login names: the username, trimmed, is the account's and
\* the password hashes to the stored hash.
Matching(username, password) ==
  IF username.t = "string" /\ password.t = "string"
  THEN {u \in Accounts(Trim(username.s)) : u.password = Hash(password.s)}
  ELSE {}

\* C8: a login is answered 200, with the user object and a cookie carrying
\* a token of that user, exactly when the username exists and the password
\* matches its stored hash; a missing field is answered 400, an unknown
\* username and a wrong password are both answered 401 "Invalid
\* credentials"; a failed login sets no cookie, and no answer carries a
\* password hash.
C8_LoginIffCredentialsMatch ==
  [][\A p \in Clients : Answers(p, "login") =>
       LET username == last'.username
           password == last'.password
           match == Matching(username, password)
       IN /\ last'.status = 200 <=> match # {}
          /\ last'.status = 200 =>
               \E u \in match :
                 /\ last'.user = {UserView(u)}
                 /\ last'.setCookie = {generateToken(u.id)}
                 /\ cookie'[p] = generateToken(u.id)
          /\ (~Truthy(username) \/ ~Truthy(password)) =>
               /\ last'.status = 400
               /\ last'.message = "All fields are required"
          /\ (/\ Truthy(username) /\ username.t = "string"
              /\ Truthy(password) /\ password.t = "string"
              /\ match = {}) =>
               /\ last'.status = 401
               /\ last'.message = "Invalid credentials"
          /\ last'.status # 200 =>
               /\ last'.setCookie = {}
               /\ last'.user = {}
               /\ cookie' = cookie
          /\ \A v \in last'.user : "password" \notin DOMAIN v
          /\ users' = users]_vars

\* Client 1 has logged in to an account that another client registered,
\* naming it with a blank before the username, and holds its token.
C8_Witness ==
  /\ last.op = "login"
  /\ last.client = 1
  /\ last.status = 200
  /\ last.username = Str(<<" ">> \o Ana)
  /\ last.token.kind # "jwt"
  /\ cookie[2].kind = "jwt"
  /\ \E u \in users :
       u.username = Ana /\ cookie[1].id = u.id /\ cookie[2].id = u.id

ProtectedOps == {"me", "delete_certificate", "post_settings"}

\* C9: logout is answered 200 and replaces the identity cookie by one that
\* has already expired, so that the client holds no cookie afterwards; a
\* request to a protected route that carries no token of a login or a
\* registration is answered 401.
C9_LogoutExpiresCookie ==
  [][\A p \in Clients :
       /\ Answers(p, "logout") =>
            /\ last'.status = 200
            /\ last'.setCookie = {NoCookie}
            /\ cookie'[p] = NoCookie
       /\ (/\ last'.client = p
           /\ last'.op \in ProtectedOps
           /\ last' # last
           /\ last'.token.kind # "jwt") =>
            last'.status = 401]_vars


\* The rules of registration as the interface states them, and the message
\* of the first rule that fails, the rules of the username first.
UsernameOk(v) ==
  /\ v.t = "string"
  /\ Len(Trim(v.s)) \in 3..50
  /\ \A i \in 1..Len(Trim(v.s)) :
       Trim(v.s)[i] \in UpperCase \cup LowerCase \cup {"_"}
         \/ IsDigit(Trim(v.s)[i])

PasswordOk(v) ==
  /\ v.t = "string"
  /\ Len(v.s) >= 8
  /\ \E i \in 1..Len(v.s) : v.s[i] \in UpperCase
  /\ \E i \in 1..Len(v.s) : v.s[i] \in LowerCase
  /\ \E i \in 1..Len(v.s) : IsDigit(v.s[i])

FirstFailed(username, password) ==
  CASE username.t # "string" \/ username.s = <<>> -> "Username is required"
    [] username.t = "string" /\ username.s # <<>> /\ ~UsernameOk(username) ->
         IF Len(Trim(username.s)) < 3
           THEN "Username must be at least 3 characters"
         ELSE IF Len(Trim(username.s)) > 50
           THEN "Username must be less than 50 characters"
         ELSE "Username can only contain letters, numbers, and underscores"
    [] UsernameOk(username)
       /\ (password.t # "string" \/ password.s = <<>>) ->
         "Password is required"
    [] OTHER ->
         IF Len(password.s) < 8
           THEN "Password must be at least 8 characters"
         ELSE IF ~\E i \in 1..Len(password.s) : password.s[i] \in UpperCase
           THEN "Password must contain at least one uppercase letter"
         ELSE IF ~\E i \in 1..Len(password.s) : password.s[i] \in LowerCase
           THEN "Password must contain at least one lowercase letter"
         ELSE "Password must contain at least one number"

\* C14: register creates an account, answered 201, only for a username
\* whose trimmed form has 3..50 letters, digits and underscores and a
\* password of at least 8 characters with an uppercase letter, a lowercase
\* letter and a digit; every other request is answered 400 with the message
\* of the first failed rule, creates no account and sets no cookie.
C14_RegisterValidates ==
  [][/\ \A p \in Clients :
          (/\ Answers(p, "register")
           /\ ~(UsernameOk(last'.username) /\ PasswordOk(last'.password)))
          => /\ last'.status = 400
             /\ last'.message = FirstFailed(last'.username, last'.password)
             /\ last'.setCookie = {}
             /\ last'.user = {}
             /\ users' = users
             /\ cookie' = cookie
     /\ users' # users =>
          /\ last'.op = "register"
          /\ last'.status = 201
          /\ UsernameOk(last'.username)
          /\ PasswordOk(last'.password)
          /\ \E u \in users' \ users :
               /\ users' = users \cup {u}
               /\ u.username = Trim(last'.username.s)]_vars

\* An account with a username of the greatest length exists, and a
\* registration with a password that has no digit has just been refused.
C14_Witness ==
  /\ last.op = "register"
  /\ last.status = 400
  /\ last.message = "Password must contain at least one number"
  /\ \E u \in users : Len(u.username) = 50

(***************************************************************************)
(* Browser side: JavaScript strings                                        *)
(*                                                                         *)
(* The pages and the PDF components work on the text of a record           *)
(* character by character, so here a JavaScript string is a TLA+ string,   *)
(* taken apart with Head and Tail; a field of a record in the browser is   *)
(* FStr(s) or FNull.                                                       *)
(***************************************************************************)
FNull   == [t |-> "null", s |-> ""]
FStr(s) == [t |-> "string", s |-> s]

\* x || fallback, for x a string or null
OrElse(v, fallback) == IF v.t = "string" /\ v.s # "" THEN v.s ELSE fallback

UpperOf(c) ==
  CASE c = "a" -> "A" [] c = "b" -> "B" [] c = "c" -> "C" [] c = "d" -> "D"
    [] c = "e" -> "E" [] c = "f" -> "F" [] c = "g" -> "G" [] c = "h" -> "H"
    [] c = "i" -> "I" [] c = "j" -> "J" [] c = "k" -> "K" [] c = "l" -> "L"
    [] c = "m" -> "M" [] c = "n" -> "N" [] c = "o" -> "O" [] c = "p" -> "P"
    [] c = "q" -> "Q" [] c = "r" -> "R" [] c = "s" -> "S" [] c = "t" -> "T"
    [] c = "u" -> "U" [] c = "v" -> "V" [] c = "w" -> "W" [] c = "x" -> "X"
    [] c = "y" -> "Y" [] c = "z" -> "Z" [] OTHER -> c

LowerOf(c) ==
  CASE c = "A" -> "a" [] c = "B" -> "b" [] c = "C" -> "c" [] c = "D" -> "d"
    [] c = "E" -> "e" [] c = "F" -> "f" [] c = "G" -> "g" [] c = "H" -> "h"
    [] c = "I" -> "i" [] c = "J" -> "j" [] c = "K" -> "k" [] c = "L" -> "l"
    [] c = "M" -> "m" [] c = "N" -> "n" [] c = "O" -> "o" [] c = "P" -> "p"
    [] c = "Q" -> "q" [] c = "R" -> "r" [] c = "S" -> "s" [] c = "T" -> "t"
    [] c = "U" -> "u" [] c = "V" -> "v" [] c = "W" -> "w" [] c = "X" -> "x"
    [] c = "Y" -> "y" [] c = "Z" -> "z" [] OTHER -> c

RECURSIVE toUpperCase(_)
toUpperCase(s) ==
  IF s = "" THEN "" ELSE UpperOf(Head(s)) \o toUpperCase(Tail(s))

RECURSIVE toLowerCase(_)
toLowerCase(s) ==
  IF s = "" THEN "" ELSE LowerOf(Head(s)) \o toLowerCase(Tail(s))

IsLetter(c) == c \in UpperCase \/ c \in LowerCase

LastChar(s) == SubSeq(s, Len(s), Len(s))

RECURSIVE trimStart(_)
trimStart(s) ==
  IF s = "" THEN "" ELSE IF IsWs(Head(s)) THEN trimStart(Tail(s)) ELSE s

RECURSIVE trimEnd(_)
trimEnd(s) ==
  IF s = "" THEN ""
  ELSE IF IsWs(LastChar(s)) THEN trimEnd(SubSeq(s, 1, Len(s) - 1)) ELSE s

\* String.prototype.trim
trim(s) == trimEnd(trimStart(s))

\* s.replace(/\s+/g, with)
RECURSIVE ReplaceWhitespace(_, _)
ReplaceWhitespace(s, with) ==
  IF s = "" THEN ""
  ELSE IF IsWs(Head(s))
    THEN with \o ReplaceWhitespace(trimStart(s), with)
  ELSE Head(s) \o ReplaceWhitespace(Tail(s), with)

\* s.indexOf(sub) + 1: the first position where sub starts in s, or 0
IndexOf(s, sub) ==
  LET at == {i \in 1..(Len(s) - Len(sub) + 1) :
               SubSeq(s, i, i + Len(sub) - 1) = sub}
  IN IF at = {} THEN 0 ELSE CHOOSE i \in at : \A j \in at : i <= j

\* s.includes(sub)
StrIncludes(s, sub) == sub = "" \/ IndexOf(s, sub) > 0

\* s.split(sep) for a separator of one character
RECURSIVE split(_, _)
split(s, sep) ==
  LET i == IndexOf(s, sep)
  IN IF i = 0 THEN <<s>>
     ELSE <<SubSeq(s, 1, i - 1)>> \o split(SubSeq(s, i + 1, Len(s)), sep)

(***************************************************************************)
(* Browser side: Date                                                      *)
(*                                                                         *)
(* A Date is a calendar day of the local time zone or the invalid date;    *)
(* its time value is counted in days since January 1, 1970.                *)
(***************************************************************************)
MonthNames ==
  <<"January", "February", "March", "April", "May", "June", "July",
    "August", "September", "October", "November", "December">>

InvalidDate == [ok |-> FALSE, y |-> 0, m |-> 0, d |-> 0]
DateOf(y, m, d) == [ok |-> TRUE, y |-> y, m |-> m, d |-> d]

\* new Date(0)
EpochDate == DateOf(1970, 1, 1)

IsLeapYear(y) == (y % 4 = 0 /\ y % 100 # 0) \/ y % 400 = 0

DaysInMonth(y, m) ==
  IF m = 2 THEN (IF IsLeapYear(y) THEN 29 ELSE 28)
  ELSE IF m \in {4, 6, 9, 11} THEN 30 ELSE 31

\* Date.prototype.getTime, in days
getTime(date) ==
  LET y   == IF date.m <= 2 THEN date.y - 1 ELSE date.y
      era == y \div 400
      yoe == y - era * 400
      mp  == IF date.m > 2 THEN date.m - 3 ELSE date.m + 9
      doy == (153 * mp + 2) \div 5 + date.d - 1
      doe == yoe * 365 + yoe \div 4 - yoe \div 100 + doy
  IN era * 146097 + doe - 719468

\* A date whose day of the month ran past the end of the month is the day
\* of the next month that many days later (MakeDay).
RECURSIVE NormalizeDate(_)
NormalizeDate(date) ==
  IF date.d <= DaysInMonth(date.y, date.m) THEN date
  ELSE NormalizeDate(
         DateOf(IF date.m = 12 THEN date.y + 1 ELSE date.y,
                IF date.m = 12 THEN 1 ELSE date.m + 1,
                date.d - DaysInMonth(date.y, date.m)))

IsNumberWord(w) ==
  w # "" /\ \A i \in 1..Len(w) : IsDigit(SubSeq(w, i, i))

RECURSIVE NumberOf(_, _)
NumberOf(w, acc) ==
  IF w = "" THEN acc
  ELSE NumberOf(Tail(w), 10 * acc + DigitValue(Head(w)))

\* The month a word names: the parser of the engine compares the first
\* three letters, whatever their case; 0 when the word names no month.
MonthOf(w) ==
  LET hit == {m \in 1..12 :
                /\ Len(w) >= 3
                /\ toLowerCase(SubSeq(w, 1, 3))
                     = toLowerCase(SubSeq(MonthNames[m], 1, 3))}
  IN IF hit = {} THEN 0 ELSE CHOOSE m \in hit : TRUE

RECURSIVE CommasToSpaces(_)
CommasToSpaces(s) ==
  IF s = "" THEN ""
  ELSE (IF Head(s) = "," THEN " " ELSE Head(s)) \o CommasToSpaces(Tail(s))

Words(s) == SelectSeq(split(CommasToSpaces(s), " "), LAMBDA w : w # "")

\* new Date(text) for the texts the registry gives it: "<month> <day>,
\* <year>" is that day, "<month> <day>" is that day of 2001, a text with
\* other words is the invalid date.
ParseDate(text) ==
  LET w == Words(text)
  IN IF /\ Len(w) \in {2, 3}
        /\ MonthOf(w[1]) > 0
        /\ \A i \in 2..Len(w) : IsNumberWord(w[i])
        /\ NumberOf(w[2], 0) \in 1..31
     THEN NormalizeDate(DateOf(IF Len(w) = 3 THEN NumberOf(w[3], 0) ELSE 2001,
                               MonthOf(w[1]), NumberOf(w[2], 0)))
     ELSE InvalidDate

\* date.toLocaleDateString("en-US", {month: "long", day: "numeric",
\* year: "numeric"})
toLocaleDateString(date) ==
  MonthNames[date.m] \o " " \o ToString(date.d) \o ", " \o ToString(date.y)

(***************************************************************************)
(* Browser side: the registry page (grouping and ordering of batches)      *)
(***************************************************************************)
\* cert.participant_name?.toLowerCase().includes(search) || ... for the
\* four fields the page searches
\* Mutation of MatchesSearch: only the participant's name is searched.
MatchesSearch_NameOnly(cert, search) ==
  /\ cert.participant_name.t = "string"
  /\ StrIncludes(toLowerCase(cert.participant_name.s), search)

MatchesSearch(cert, search) ==
  \E f \in {"participant_name", "training_date", "venue", "facility"} :
    cert[f].t = "string" /\ StrIncludes(toLowerCase(cert[f].s), search)

dateKey(cert) ==
  ReplaceWhitespace(toUpperCase(OrElse(cert.training_date, "NODATE")), "")

typeKey(cert) ==
  ReplaceWhitespace(toUpperCase(OrElse(cert.training_type, "UNSPECIFIED")),
                    "")

\* Mutation of batchId: the training type is left out of the key.
batchId_DateOnly(cert) == dateKey(cert) \o "_"

batchId(cert) == dateKey(cert) \o "_" \o typeKey(cert)

NewGroup(cert) ==
  [batchId      |-> batchId(cert),
   displayDate  |-> toUpperCase(ReplaceWhitespace(
                      trim(OrElse(cert.training_date, "NO DATE")), " ")),
   trainingType |-> toUpperCase(ReplaceWhitespace(
                      trim(OrElse(cert.training_type, "UNSPECIFIED")), " ")),
   certs        |-> <<>>]

\* filtered.forEach(...): the groups object as the sequence of its entries,
\* in the order in which the keys were added.
RECURSIVE GroupInto(_, _)
GroupInto(entries, filtered) ==
  IF filtered = <<>> THEN entries
  ELSE LET cert == Head(filtered)
           at == {i \in 1..Len(entries) : entries[i].batchId = batchId(cert)}
           opened == IF at = {} THEN Append(entries, NewGroup(cert))
                     ELSE entries
           k == CHOOSE i \in 1..Len(opened) :
                  opened[i].batchId = batchId(cert)
       IN GroupInto([opened EXCEPT ![k].certs = Append(@, cert)],
                    Tail(filtered))

filteredAndGroupedCerts(certList, term) ==
  LET search == toLowerCase(term)
      filtered == SelectSeq(certList, LAMBDA c : MatchesSearch(c, search))
  IN GroupInto(<<>>, filtered)

\* getSortableDate
getSortableDate(dateStr) ==
  IF dateStr = "" THEN EpochDate
  ELSE LET parts == split(dateStr, "-")
           byComma == split(dateStr, ",")
           yearPart == IF Len(byComma) > 1 /\ byComma[2] # ""
                       THEN byComma[2] ELSE " 2026"
       IN IF Len(parts) > 1
          THEN ParseDate(trim(parts[1]) \o "," \o yearPart)
          ELSE ParseDate(dateStr)

\* The comparator of the sort: (b, a) => getSortableDate(a[1].displayDate)
\* - getSortableDate(b[1].displayDate); the difference with an invalid date
\* is NaN, which the sort takes for 0.
compareFn(b, a) ==
  LET da == getSortableDate(a.displayDate)
      db == getSortableDate(b.displayDate)
  IN IF da.ok /\ db.ok THEN getTime(da) - getTime(db) ELSE 0

IndexOrders(n) ==
  {q \in [1..n -> 1..n] : \A i, j \in 1..n : q[i] = q[j] => i = j}

\* [...entries].sort(compareFn).  The sort is stable; when the comparator
\* is a consistent order (every date is valid) the result is determined,
\* and otherwise the order is the implementation's choice among those in
\* which no element is followed by one that compares before it.
SortOrders(entries) ==
  LET n == Len(entries)
      consistent == \A i \in 1..n : getSortableDate(entries[i].displayDate).ok
  IN {q \in IndexOrders(n) :
        IF consistent
        THEN \A i, j \in 1..n :
               i < j => \/ compareFn(entries[q[i]], entries[q[j]]) < 0
                        \/ /\ compareFn(entries[q[i]], entries[q[j]]) = 0
                           /\ q[i] < q[j]
        ELSE \A i \in 1..(n - 1) :
               compareFn(entries[q[i]], entries[q[i + 1]]) <= 0}

Rendered(value) == [kind |-> "rendered", value |-> value]

\* The memo filteredAndGroupedCerts is evaluated for a search term.
FilterAndGroup(term) ==
  /\ searchTerm' = term
  /\ groups' = Rendered(filteredAndGroupedCerts(list, term))
  /\ sorted' = NotRendered
  /\ UNCHANGED <<serverVars, list, rendererVars, pageVars, draftVars>>

\* The memo of the listing is evaluated: the batches are sorted.
SortBatches ==
  /\ groups.kind = "rendered"
  /\ \E q \in SortOrders(groups.value) :
       sorted' = Rendered([i \in 1..Len(groups.value) |-> groups.value[q[i]]])
  /\ UNCHANGED <<serverVars, list, searchTerm, groups, rendererVars,
                 pageVars, draftVars>>

MaxList == 3

Cert(id, name, date, type) ==
  [id |-> id, participant_name |-> name, training_date |-> date,
   training_type |-> type, venue |-> FNull, facility |-> FNull,
   participant_type |-> FNull]

\* Records as the server returns them (trimmed text or null), with dates
\* and types that differ in case and inner whitespace only, a date that
\* does not parse and missing values.
ListedCerts ==
  { Cert(0, FStr("Ana"), FStr("January 21-23, 2026"),
         FStr("Basic Life Support Training")),
    Cert(0, FStr("Ben"), FStr("JANUARY 21-23, 2026"),
         FStr("BASIC LIFE  SUPPORT TRAINING")),
    Cert(0, FStr("Cara"), FStr("January  21-23, 2026"),
         FStr("Standard First Aid Training of trainers")),
    Cert(0, FStr("Dan"), FStr("March 5, 2025"),
         FStr("Basic Life Support Training")),
    Cert(0, FStr("Eva"), FStr("February 2-4, 2026"), FNull),
    Cert(0, FStr("Fe"), FStr("TBA"), FStr("Basic Life Support Training")),
    Cert(0, FStr("Gio"), FNull, FNull),
    Cert(0, FStr("Hana"), FStr("No Date"), FStr("Unspecified")) }

SearchTerms == {"", "an"}

InitRegistry ==
  /\ pc = [p \in Clients |-> "idle"]
  /\ req = [p \in Clients |-> NoReq]
  /\ last = NoResponse
  /\ cookie = [p \in Clients |-> NoCookie]
  /\ users = {}
  /\ certificates = {}
  /\ nextCertId = 1
  /\ system_settings = NoRows
  /\ conns = [c \in ConnIds |-> ClosedConn]
  /\ idleStack = <<>>
  /\ \E n \in 0..MaxList :
       \E l \in [1..n -> ListedCerts] :
         list = [i \in 1..n |-> [l[i] EXCEPT !.id = i]]
  /\ searchTerm = ""
  /\ groups = NotRendered
  /\ sorted = NotRendered
  /\ RenderersClosed
  /\ PageClosed
  /\ DraftClosed

NextRegistry ==
  \/ \E term \in SearchTerms : FilterAndGroup(term)
  \/ SortBatches

SpecRegistry == InitRegistry /\ [][NextRegistry]_vars

(***************************************************************************)
(* Browser side: the batch renderers BatchIDPDF and BatchCertPDF           *)
(***************************************************************************)
CardsPerPage == 8

NotAvailable == [registered |-> "N/A", renewal |-> "N/A", shortYear |-> "26"]

HasLetter(s) == \E i \in 1..Len(s) : IsLetter(SubSeq(s, i, i))

\* dateStr.match(/^[a-zA-Z]+/): the letters the text starts with
RECURSIVE LeadingLetters(_)
LeadingLetters(s) ==
  IF s = "" \/ ~IsLetter(Head(s)) THEN ""
  ELSE Head(s) \o LeadingLetters(Tail(s))

\* registered.match(/\d{4}/)?.[0].slice(-2) || "26", for the text of a
\* formatted date, whose only run of digits that can be 4 long is the year
ShortYearOf(date) ==
  IF Len(ToString(date.y)) >= 4 THEN SubSeq(ToString(date.y), 3, 4) ELSE "26"

\* dateObj.setFullYear(dateObj.getFullYear() + 2)
\* dateObj.setDate(dateObj.getDate() + 2)
RenewalOf(date) ==
  LET moved == NormalizeDate(DateOf(date.y + 2, date.m, date.d))
  IN NormalizeDate(DateOf(moved.y, moved.m, moved.d + 2))

processDates(training_date) ==
  IF training_date.t # "string" \/ training_date.s = "" THEN NotAvailable
  ELSE LET dateStr == training_date.s
           part == IF StrIncludes(dateStr, "-")
                   THEN trim(split(dateStr, "-")[2]) ELSE dateStr
           target == IF HasLetter(part) THEN part
                     ELSE LeadingLetters(dateStr) \o " " \o part
           dateObj == ParseDate(target)
       IN IF ~dateObj.ok THEN NotAvailable
          ELSE [registered |-> toLocaleDateString(dateObj),
                renewal    |-> toLocaleDateString(RenewalOf(dateObj)),
                shortYear  |-> ShortYearOf(dateObj)]

\* Mutation of generateRegNo: only the exact text "Healthcare Provider"
\* gets the provider prefix.
generateRegNo_ExactType(person, shortYear) ==
  LET participantId == IF person.id # 0 THEN ToString(person.id) ELSE "000"
      prefix == IF person.participant_type = FStr("Healthcare Provider")
                THEN "BLSHCP" ELSE "BLSLR"
  IN prefix \o "-" \o shortYear \o "-DOHROI-" \o participantId

\* generateRegNo; person._id || person.id || "000", with 0 for no id
generateRegNo(person, shortYear) ==
  LET participantId == IF person.id # 0 THEN ToString(person.id) ELSE "000"
      isHCP == /\ person.participant_type.t = "string"
               /\ StrIncludes(toLowerCase(person.participant_type.s),
                              "healthcare")
      prefix == IF isHCP THEN "BLSHCP" ELSE "BLSLR"
  IN prefix \o "-" \o shortYear \o "-DOHROI-" \o participantId

\* validateParticipant(person).isValid, and isValidCertificate of
\* BatchCertPDF, which states the same two conditions
validateParticipant(person) ==
  /\ person.id # 0
  /\ person.participant_name.t = "string"
  /\ trim(person.participant_name.s) # ""

\* Mutation of chunkArray: a last chunk that is not full is left out.
RECURSIVE chunkArray_FullOnly(_, _)
chunkArray_FullOnly(array, size) ==
  IF Len(array) < size THEN <<>>
  ELSE <<SubSeq(array, 1, size)>>
       \o chunkArray_FullOnly(SubSeq(array, size + 1, Len(array)), size)

RECURSIVE chunkArray(_, _)
chunkArray(array, size) ==
  IF array = <<>> THEN <<>>
  ELSE IF Len(array) <= size THEN <<array>>
  ELSE <<SubSeq(array, 1, size)>>
       \o chunkArray(SubSeq(array, size + 1, Len(array)), size)

FrontCard(person) ==
  [person |-> person,
   regNo  |-> generateRegNo(person, processDates(person.training_date).shortYear),
   registered |-> "", renewal |-> ""]

BackCard(person) ==
  [person |-> person,
   regNo  |-> generateRegNo(person, processDates(person.training_date).shortYear),
   registered |-> processDates(person.training_date).registered,
   renewal    |-> processDates(person.training_date).renewal]

FrontPage(chunk) ==
  [kind |-> "front", message |-> "",
   cards |-> [i \in 1..Len(chunk) |-> FrontCard(chunk[i])]]

BackPage(chunk) ==
  [kind |-> "back", message |-> "",
   cards |-> [i \in 1..Len(chunk) |-> BackCard(chunk[i])]]

Document(author, pages) ==
  [kind |-> "document", author |-> author, pages |-> pages]

\* BatchIDPDF({certs}): null, or the document of the front pages followed
\* by the back pages
BatchIDPDF(props) ==
  LET validCerts == SelectSeq(props, validateParticipant)
      participantChunks == chunkArray(validCerts, CardsPerPage)
  IN IF Len(validCerts) = 0 THEN [kind |-> "null", pages |-> <<>>]
     ELSE Document("DOH-HEMS",
            [k \in 1..Len(participantChunks) |->
               FrontPage(participantChunks[k])]
            \o [k \in 1..Len(participantChunks) |->
               BackPage(participantChunks[k])])

EmptyStatePage(message) ==
  [kind |-> "empty state", message |-> message, cards |-> <<>>]

getTrainingAcronym(text) ==
  CASE text = "Basic Life Support Training" -> "BLS"
    [] text = "Basic Life Support and Standard First Aid Training" -> "BLS-SFA"
    [] text = "Basic Life Support Training of trainers" -> "BLS-TOT"
    [] text = "Standard First Aid Training of trainers" -> "SFA-TOT"
    [] OTHER -> "TRNG"

getParticipantAcronym(text) ==
  CASE text = "Lay Rescuer" -> "LR"
    [] text = "Healthcare Provider" -> "HCP"
    [] OTHER -> "PART"

\* dateString.match(/\d{4}/): the first four digits in a row, "" for no match
RECURSIVE MatchFourDigits(_)
MatchFourDigits(s) ==
  IF Len(s) < 4 THEN ""
  ELSE IF \A i \in 1..4 : IsDigit(SubSeq(s, i, i)) THEN SubSeq(s, 1, 4)
  ELSE MatchFourDigits(Tail(s))

\* Mutation of parseFinalDateComponents: the year is always the fallback.
parseFinalDateComponents_NoYear(dateString) == "2026"

\* parseFinalDateComponents(dateString).year
parseFinalDateComponents(dateString) ==
  IF dateString = "" THEN "2026"
  ELSE IF MatchFourDigits(dateString) # "" THEN MatchFourDigits(dateString)
  ELSE "2026"

\* The settings prop: {} or the officers' names and positions
NoSettings == [off1_name |-> "", off3_name |-> "", off3_pos |-> ""]

SettingsProps ==
  { NoSettings,
    [off1_name |-> "Dr. Cruz", off3_name |-> "Dr. Reyes", off3_pos |-> "Chief"] }

\* settings?.off1_name || "Training Registry System"
AuthorOf(settings) ==
  IF settings.off1_name # "" THEN settings.off1_name
  ELSE "Training Registry System"

\* CertificatePage({cert, signerName, signerPosition}): the texts of the page
\* that depend on its props; the records of the registry carry no
\* training_date_range
CertificatePage(cert, signerName, signerPosition) ==
  LET dateString == OrElse(cert.training_date, "")
      trainingType == OrElse(cert.training_type, "Training Program")
      participantType == OrElse(cert.participant_type, "Lay Rescuer")
      certificateId == IF cert.id # 0 THEN ToString(cert.id) ELSE "000000"
  IN [kind |-> "certificate", cert |-> cert,
      signerName |-> signerName, signerPosition |-> signerPosition,
      certificateCode |->
        "DOHCHD-1-" \o getTrainingAcronym(trainingType) \o "-"
          \o getParticipantAcronym(participantType) \o "-"
          \o parseFinalDateComponents(dateString) \o "-" \o certificateId]

\* BatchCertPDF({certs, settings})
BatchCertPDF(props, settings) ==
  LET validCerts == SelectSeq(props, validateParticipant)
      invalidCount == Len(props) - Len(validCerts)
  IN IF Len(validCerts) = 0
     THEN Document(AuthorOf(settings), <<EmptyStatePage(
            IF invalidCount > 0
            THEN "All " \o ToString(invalidCount)
                 \o " certificate(s) were invalid and could not be rendered. Please check your data."
            ELSE "No certificates were provided to generate.")>>)
     ELSE Document(AuthorOf(settings),
            [k \in 1..Len(validCerts) |->
               CertificatePage(validCerts[k], settings.off3_name, settings.off3_pos)])

RenderBatchID ==
  /\ idDocument' = BatchIDPDF(certs)
  /\ UNCHANGED <<serverVars, registryVars, pageVars, draftVars,
                 certs, certDocument, pdfDocument>>

RenderBatchCert(settings) ==
  /\ certDocument' = BatchCertPDF(certs, settings)
  /\ UNCHANGED <<serverVars, registryVars, pageVars, draftVars,
                 certs, idDocument, pdfDocument>>

MaxBatch == 17

BatchDates ==
  << FStr("January 21, 2024"), FStr("January 21-23, 2026"),
     FStr("February 29, 2024"), FStr("December 30-31, 2025"), FNull,
     FStr("January 30, 2025"), FStr("TBA"),
     FStr("January 30 - February 2, 2024") >>

BatchTypes ==
  << FStr("Healthcare Provider"), FStr("Lay Rescuer"), FNull,
     FStr("Allied healthcare worker"), FStr("Doctor") >>

\* The i-th record of a batch of the given make: all records valid, every
\* third one without id or with a blank name, or none valid.
BatchCert(i, make, shift) ==
  LET broken == make = "none valid" \/ (make = "some valid" /\ i % 3 = 0)
  IN [id |-> IF broken /\ i % 2 = 0 THEN 0 ELSE i,
      participant_name |->
        IF broken /\ i % 2 = 1 THEN FStr("  ") ELSE FStr("Ana"),
      training_type |-> FStr("Basic Life Support Training"),
      training_date |-> BatchDates[((i + shift) % Len(BatchDates)) + 1],
      participant_type |-> BatchTypes[((i + shift) % Len(BatchTypes)) + 1]]

InitBatch ==
  /\ pc = [p \in Clients |-> "idle"]
  /\ req = [p \in Clients |-> NoReq]
  /\ last = NoResponse
  /\ cookie = [p \in Clients |-> NoCookie]
  /\ users = {}
  /\ certificates = {}
  /\ nextCertId = 1
  /\ system_settings = NoRows
  /\ conns = [c \in ConnIds |-> ClosedConn]
  /\ idleStack = <<>>
  /\ RegistryClosed
  /\ \E n \in 0..MaxBatch :
       \E make \in {"all valid", "some valid", "none valid"} :
         \E shift \in 0..2 :
           certs = [i \in 1..n |-> BatchCert(i, make, shift)]
  /\ idDocument = NotRendered
  /\ certDocument = NotRendered
  /\ pdfDocument = NotRendered
  /\ PageClosed
  /\ DraftClosed

NextBatch ==
  \/ RenderBatchID
  \/ \E settings \in SettingsProps : RenderBatchCert(settings)

SpecBatch == InitBatch /\ [][NextBatch]_vars

(***************************************************************************)
(* Browser side: the single renderer CertPDF                               *)
(***************************************************************************)
FNum(n) == [t |-> "number", s |-> ToString(n)]

\* The data prop: null, a text, an array, or a record
DataNull == [kind |-> "null"]
DataText == [kind |-> "string"]
DataArray == [kind |-> "array"]
DataObject(cert) == [kind |-> "object", cert |-> cert]

Invalid(code, error, details) ==
  [isValid |-> FALSE, code |-> code, error |-> error, details |-> details]

\* data.participant_name?.trim() of a value that is neither a text nor null
NameTrimThrows(data) ==
  /\ data.kind = "object"
  /\ data.cert.id # 0
  /\ data.cert.participant_name.t = "number"

\* validateCertificateData of CertPDF.jsx, where it returns
CertPDF_validateCertificateData(data) ==
  IF data.kind = "null"
  THEN Invalid("NO_DATA", "No certificate data provided",
         "The data prop is undefined or null. Please ensure you are passing certificate data to the component.")
  ELSE IF data.kind # "object"
  THEN Invalid("INVALID_TYPE", "Invalid data format",
         "Expected an object, but received: " \o data.kind)
  ELSE IF data.cert.id = 0
  THEN Invalid("MISSING_ID", "Missing required field: ID",
         "Certificate data must include either an _id or id field.")
  ELSE IF OrElse(data.cert.participant_name, "") = ""
          \/ trim(data.cert.participant_name.s) = ""
  THEN Invalid("MISSING_NAME", "Missing required field: Participant Name",
         "Certificate data must include a non-empty participant_name field.")
  ELSE [isValid |-> TRUE, code |-> "VALID", error |-> "", details |-> ""]

\* ErrorPage({error, details}): the texts of the page
ErrorPage(error, details) ==
  [kind |-> "error",
   texts |-> <<"Certificate Generation Failed", error, details,
               "Please verify the certificate data and try again.">>]

Raised == [kind |-> "raised"]

\* CertPDF({data, settings})
CertPDF(data, settings) ==
  IF NameTrimThrows(data) THEN Raised
  ELSE LET validation == CertPDF_validateCertificateData(data)
       IN IF ~validation.isValid
          THEN Document(AuthorOf(settings),
                 <<ErrorPage(validation.error, validation.details)>>)
          ELSE Document(AuthorOf(settings),
                 <<CertificatePage(data.cert, settings.off3_name, settings.off3_pos)>>)

\* <CertPDF data={...} settings={...} /> is rendered
RenderCertPDF(data, settings) ==
  /\ pdfDocument' = [props |-> [data |-> data, settings |-> settings],
                     result |-> CertPDF(data, settings)]
  /\ UNCHANGED <<serverVars, registryVars, pageVars, draftVars,
                 certs, idDocument, certDocument>>

MaxRender == 4

RenderTrainingTypes ==
  << FStr("Basic Life Support Training"),
     FStr("Basic Life Support and Standard First Aid Training"),
     FStr("Basic Life Support Training of trainers"),
     FStr("Standard First Aid Training of trainers"),
     FStr("Yoga"), FNull >>

RenderParticipantTypes ==
  << FStr("Lay Rescuer"), FStr("Healthcare Provider"), FStr("Doctor"), FNull >>

RenderDates ==
  << FStr("January 21-23, 2026"), FStr("March 5, 2025"), FNull, FStr("TBA"),
     FStr("Batch 12 of 20245"), FStr("June 1999 to 2001") >>

\* The i-th record of a list of the given make, as BatchCert
RenderCert(i, make, shift) ==
  LET broken == make = "none valid" \/ (make = "some valid" /\ i % 2 = 0)
      j == i + shift
  IN [id |-> IF broken /\ j % 3 = 0 THEN 0 ELSE i,
      participant_name |->
        IF broken /\ j % 3 = 1 THEN FStr("  ")
        ELSE IF broken /\ j % 3 = 2 THEN FNull ELSE FStr("Ana"),
      training_type |-> RenderTrainingTypes[(j % Len(RenderTrainingTypes)) + 1],
      training_date |-> RenderDates[((j \div 2) % Len(RenderDates)) + 1],
      participant_type |->
        RenderParticipantTypes[(j % Len(RenderParticipantTypes)) + 1]]

\* What a caller can hand to CertPDF as data
DataProps ==
  { DataNull, DataText, DataArray,
    DataObject([id |-> 7, participant_name |-> FNum(7),
                training_type |-> FNull, training_date |-> FNull,
                participant_type |-> FNull]) }
  \cup { DataObject(certs[i]) : i \in 1..Len(certs) }

InitRender ==
  /\ pc = [p \in Clients |-> "idle"]
  /\ req = [p \in Clients |-> NoReq]
  /\ last = NoResponse
  /\ cookie = [p \in Clients |-> NoCookie]
  /\ users = {}
  /\ certificates = {}
  /\ nextCertId = 1
  /\ system_settings = NoRows
  /\ conns = [c \in ConnIds |-> ClosedConn]
  /\ idleStack = <<>>
  /\ RegistryClosed
  /\ \E n \in 0..MaxRender :
       \E make \in {"all valid", "some valid", "none valid"} :
         \E shift \in 0..11 :
           certs = [i \in 1..n |-> RenderCert(i, make, shift)]
  /\ idDocument = NotRendered
  /\ certDocument = NotRendered
  /\ pdfDocument = NotRendered
  /\ PageClosed
  /\ DraftClosed

NextRender ==
  \/ \E data \in DataProps :
       \E settings \in SettingsProps : RenderCertPDF(data, settings)
  \/ \E settings \in SettingsProps : RenderBatchCert(settings)

SpecRender == InitRender /\ [][NextRender]_vars

(***************************************************************************)
(* Claims about the registry page (SpecRegistry)                           *)
(***************************************************************************)
\* A text uppercased and without whitespace; a missing text counts as the
\* given word.
Normalized(v, missing) ==
  ReplaceWhitespace(toUpperCase(IF v.t = "string" THEN v.s ELSE missing), "")

SameBatchKey(x, y) ==
  /\ Normalized(x.training_date, "NODATE")
       = Normalized(y.training_date, "NODATE")
  /\ Normalized(x.training_type, "UNSPECIFIED")
       = Normalized(y.training_type, "UNSPECIFIED")

\* C15: two records land in the same batch if and only if their
\* training_date values are equal after uppercasing and removing all
\* whitespace and their training_type values are equal under the same
\* normalization, a missing date counting as "NODATE" and a missing type as
\* "UNSPECIFIED".
C15_GroupingStable ==
  groups.kind = "rendered" =>
    \A i, j \in 1..Len(groups.value) :
      \A k \in 1..Len(groups.value[i].certs) :
        \A l \in 1..Len(groups.value[j].certs) :
          i = j <=> SameBatchKey(groups.value[i].certs[k],
                                 groups.value[j].certs[l])

\* The records of "January 21-23, 2026" and of "JANUARY 21-23, 2026" share
\* a batch, and the record of the same date with another training type has
\* a batch of its own.
C15_Witness ==
  /\ groups.kind = "rendered"
  /\ Len(groups.value) = 2
  /\ Len(groups.value[1].certs) = 2
  /\ groups.value[1].certs[1].training_date = FStr("January 21-23, 2026")
  /\ groups.value[1].certs[2].training_date = FStr("JANUARY 21-23, 2026")
  /\ groups.value[2].certs[1].training_date = FStr("January  21-23, 2026")

\* C16: the listing is sorted ascending by the start date of each batch's
\* display date: of two batches whose dates parse the one with the earlier
\* start date comes first, and a batch whose date does not parse comes
\* before every batch whose date parses.
C16_ListingAscending ==
  sorted.kind = "rendered" =>
    \A i, j \in 1..Len(sorted.value) :
      LET di == getSortableDate(sorted.value[i].displayDate)
          dj == getSortableDate(sorted.value[j].displayDate)
      IN i < j => /\ (di.ok /\ dj.ok) => getTime(di) <= getTime(dj)
                  /\ ~(di.ok /\ ~dj.ok)

(***************************************************************************)
(* Claims about the batch renderers (SpecBatch)                            *)
(***************************************************************************)
PagesOf(doc, side) == SelectSeq(doc.pages, LAMBDA page : page.kind = side)

PersonsOf(page) == [i \in 1..Len(page.cards) |-> page.cards[i].person]

RECURSIVE Flatten(_)
Flatten(seqs) == IF seqs = <<>> THEN <<>> ELSE Head(seqs) \o Flatten(Tail(seqs))

ValidRecords == SelectSeq(certs, validateParticipant)

HasNoticePage(doc) ==
  /\ doc.kind = "document"
  /\ \E k \in 1..Len(doc.pages) :
       doc.pages[k].kind = "empty state" /\ doc.pages[k].message # ""

\* C18: when the input holds no valid record, each of the two renderers
\* returns a document that holds a page with an error or empty-state message.
C18_EmptyBatchStillRenders ==
  Len(ValidRecords) = 0 =>
    /\ idDocument # NotRendered => HasNoticePage(idDocument)
    /\ certDocument # NotRendered => HasNoticePage(certDocument)

IdCards ==
  UNION { { idDocument.pages[k].cards[i] : i \in 1..Len(idDocument.pages[k].cards) } :
          k \in 1..Len(idDocument.pages) }

RegNoWith(prefix, person) ==
  prefix \o "-" \o processDates(person.training_date).shortYear
         \o "-DOHROI-" \o ToString(person.id)

RECURSIVE MentionsHealthcare(_)
MentionsHealthcare(s) ==
  /\ Len(s) >= 10
  /\ \/ \A i \in 1..10 :
          SubSeq(s, i, i) \in {SubSeq("healthcare", i, i), SubSeq("HEALTHCARE", i, i)}
     \/ MentionsHealthcare(Tail(s))

YearsLater(date, years) ==
  LET lastDay == DaysInMonth(date.y + years, date.m)
  IN DateOf(date.y + years, date.m, IF date.d > lastDay THEN lastDay ELSE date.d)

RECURSIVE DaysLater(_, _)
DaysLater(date, days) ==
  IF days = 0 THEN date
  ELSE DaysLater(
         IF date.d < DaysInMonth(date.y, date.m) THEN DateOf(date.y, date.m, date.d + 1)
         ELSE IF date.m < 12 THEN DateOf(date.y, date.m + 1, 1)
         ELSE DateOf(date.y + 1, 1, 1),
         days - 1)

\* C20: on every back card whose training date parses, the renewal date is
\* the calendar date 2 years and 2 days after the registered date, in
\* whichever order the years and the days are added.
C20_RenewalTwoYearsTwoDays ==
  idDocument.kind = "document" =>
    \A card \in IdCards :
      (card.registered # "" /\ card.registered # "N/A") =>
        LET registered == ParseDate(card.registered)
        IN /\ card.renewal = toLocaleDateString(DaysLater(YearsLater(registered, 2), 2))
           /\ card.renewal = toLocaleDateString(YearsLater(DaysLater(registered, 2), 2))

(***************************************************************************)
(* Claims about the certificate renderers (SpecRender)                     *)
(***************************************************************************)
\* the certificate pages of the batch document and of the single document
CodePages ==
  (IF certDocument.kind = "document"
   THEN { certDocument.pages[k] : k \in 1..Len(certDocument.pages) } ELSE {})
  \cup (IF pdfDocument # NotRendered /\ pdfDocument.result.kind = "document"
        THEN { pdfDocument.result.pages[1] } ELSE {})

CertificatePages == { page \in CodePages : page.kind = "certificate" }

\* the first four digits in a row of a training date, "2026" without any
YearIn(training_date) ==
  LET s == IF training_date = FNull THEN "" ELSE training_date.s
      digits == {"0", "1", "2", "3", "4", "5", "6", "7", "8", "9"}
      starts == { i \in 1..(Len(s) - 3) :
                    \A k \in i..(i + 3) : SubSeq(s, k, k) \in digits }
  IN IF starts = {} THEN "2026"
     ELSE LET i == CHOOSE i \in starts : \A k \in starts : i <= k
          IN SubSeq(s, i, i + 3)

TrainingAcronyms == {"BLS", "BLS-SFA", "BLS-TOT", "SFA-TOT", "TRNG"}
ParticipantAcronyms == {"LR", "HCP", "PART"}

TrainingAcronymOf(training_type) ==
  CASE training_type = FStr("Basic Life Support Training") -> "BLS"
    [] training_type = FStr("Basic Life Support and Standard First Aid Training") -> "BLS-SFA"
    [] training_type = FStr("Basic Life Support Training of trainers") -> "BLS-TOT"
    [] training_type = FStr("Standard First Aid Training of trainers") -> "SFA-TOT"
    [] OTHER -> "TRNG"

\* the acronym table of the participant types, with its fallback
ParticipantAcronymOf(participant_type) ==
  CASE participant_type = FStr("Lay Rescuer") -> "LR"
    [] participant_type = FStr("Healthcare Provider") -> "HCP"
    [] OTHER -> "PART"

\* C22: the code on every certificate page carries the fixed acronym of the
\* record's training type and of its participant type when they are known,
\* "TRNG" when the training type is unknown or missing and "PART" when the
\* participant type is unknown or missing.
C22_AcronymsWithFallback ==
  \A page \in CertificatePages :
    page.certificateCode =
      "DOHCHD-1-" \o TrainingAcronymOf(page.cert.training_type) \o "-"
        \o ParticipantAcronymOf(page.cert.participant_type) \o "-"
        \o YearIn(page.cert.training_date) \o "-" \o ToString(page.cert.id)

\* the first check a data prop fails, in the order no data, type, id, name;
\* "VALID" when it fails none
FirstFailedCheck(data) ==
  IF data.kind = "null" THEN "NO_DATA"
  ELSE IF data.kind # "object" THEN "INVALID_TYPE"
  ELSE IF data.cert.id = 0 THEN "MISSING_ID"
  ELSE IF data.cert.participant_name.t # "string" THEN "MISSING_NAME"
  ELSE IF \A i \in 1..Len(data.cert.participant_name.s) :
            SubSeq(data.cert.participant_name.s, i, i) = " " THEN "MISSING_NAME"
  ELSE "VALID"

MessageOf(code) ==
  CASE code = "NO_DATA" -> "No certificate data provided"
    [] code = "INVALID_TYPE" -> "Invalid data format"
    [] code = "MISSING_ID" -> "Missing required field: ID"
    [] code = "MISSING_NAME" -> "Missing required field: Participant Name"

\* C23: a single render of invalid data returns a document with an error
\* page whose texts hold the code of the first failed check and its
\* message; it does not raise.
C23_ErrorPageListsCodeAndMessage ==
  (pdfDocument # NotRendered
   /\ FirstFailedCheck(pdfDocument.props.data) # "VALID") =>
    LET code == FirstFailedCheck(pdfDocument.props.data)
    IN /\ pdfDocument.result.kind = "document"
       /\ \E k \in 1..Len(pdfDocument.result.pages) :
            LET page == pdfDocument.result.pages[k]
            IN /\ page.kind = "error"
               /\ \E i \in 1..Len(page.texts) : page.texts[i] = MessageOf(code)
               /\ \E i \in 1..Len(page.texts) : StrIncludes(page.texts[i], code)

(***************************************************************************)
(* Certificate routes under concurrent requests                            *)
(***************************************************************************)
\* A body with every field, and one that omits the optional texts.
FullBody ==
  [Base EXCEPT !.venue = Str(<<"Hall">>), !.facility = Str(<<"RHU">>),
               !.position = Str(<<"Nurse">>)]

PartialBody == [Base EXCEPT !.participant_name = Str(<<"Ben">>)]

ConcurrentBodies == {FullBody, PartialBody}

NextConcurrent ==
  /\ UNCHANGED browserVars
  /\ \E p \in Clients :
       \/ Login(p, Str(AdminName), Str(AdminPass))
       \/ \E d \in ConcurrentBodies : PostCertificate(p, d)
       \/ \E i \in IdParams, d \in ConcurrentBodies : PutSelect(p, i, d)
       \/ PutUpdate(p)
       \/ \E i \in IdParams : DeleteSelect(p, i)
       \/ DeleteDelete(p)
       \/ GetCertificates(p)

SpecConcurrent == InitCert /\ [][NextConcurrent]_vars

(***************************************************************************)
(* Claims about concurrent requests on one certificate (SpecConcurrent)    *)
(***************************************************************************)
\* C24: whenever the UPDATE of a PUT has run and the PUT is answered, the
\* answer is 200 only together with the record as stored after the update,
\* and it is 404 when no record of that id exists at the time of the update.
C24_PutOfDeletedIs404 ==
  [][\A p \in Clients :
       (pc[p] = "put_update" /\ pc'[p] = "idle") =>
         /\ last'.status = 200 =>
              \E r \in certificates' : r.id = req[p].certId /\ last'.rows = {r}
         /\ RowsWithId(req[p].certId) = {} => last'.status = 404]_vars

HoldsTerm(cert, term) ==
  \E f \in {"participant_name", "training_date", "venue", "facility"} :
    /\ cert[f] # FNull
    /\ \E i \in 1..(Len(cert[f].s) + 1), j \in 0..Len(cert[f].s) :
         toLowerCase(SubSeq(cert[f].s, i, j)) = toLowerCase(term)

\* the places of a record in the batches
PlacesOf(cert) ==
  { <<g, k>> \in (1..Len(groups.value)) \X (1..Len(list)) :
      k <= Len(groups.value[g].certs) /\ groups.value[g].certs[k] = cert }

\* C26: every record of the list that holds the search term is a member of
\* exactly one batch and the others of none, no batch is empty, and the
\* members of a batch stand in the order they have in the list.
C26_GroupingPartitions ==
  groups.kind = "rendered" =>
    /\ \A i \in 1..Len(list) :
         Cardinality(PlacesOf(list[i])) =
           IF HoldsTerm(list[i], searchTerm) THEN 1 ELSE 0
    /\ \A g \in 1..Len(groups.value) :
         /\ Len(groups.value[g].certs) >= 1
         /\ \A k \in 1..Len(groups.value[g].certs) :
              \E i \in 1..Len(list) : list[i] = groups.value[g].certs[k]
         /\ \A k, l \in 1..Len(groups.value[g].certs) :
              k < l =>
                \E i, j \in 1..Len(list) :
                  /\ i < j
                  /\ list[i] = groups.value[g].certs[k]
                  /\ list[j] = groups.value[g].certs[l]

\* Under the search "an" a record is left out, and a batch of two holds a
\* record found by its date only.
C26_Witness ==
  /\ groups.kind = "rendered"
  /\ searchTerm = "an"
  /\ \E i \in 1..Len(list) : PlacesOf(list[i]) = {}
  /\ \E g \in 1..Len(groups.value) :
       /\ Len(groups.value[g].certs) = 2
       /\ groups.value[g].certs[2].participant_name = FStr("Ben")


\* ---------------------------------------------------------------------
\* Browser side: the archive pages and the batch detail view
\* ---------------------------------------------------------------------

ItemsPerPage == 10

ModalItemsPerPage == 10

\* Math.ceil(n / d) for n >= 0
Ceil(n, d) == (n + d - 1) \div d

\* array.slice(start, end)
Slice(seq, start, end) ==
  LET to == IF end < Len(seq) THEN end ELSE Len(seq)
  IN IF start >= to THEN <<>> ELSE SubSeq(seq, start + 1, to)

\* The sort of the listing's memo when every date is valid: the comparator
\* is a consistent order and the stable sort has one result, built here by
\* inserting each entry behind the entries that do not compare after it.
RECURSIVE InsertEntry(_, _)
InsertEntry(done, entry) ==
  IF done = <<>> THEN <<entry>>
  ELSE IF compareFn(Head(done), entry) <= 0
       THEN <<Head(done)>> \o InsertEntry(Tail(done), entry)
       ELSE <<entry>> \o done

RECURSIVE sortEntries(_)
sortEntries(entries) ==
  IF entries = <<>> THEN <<>>
  ELSE InsertEntry(sortEntries(SubSeq(entries, 1, Len(entries) - 1)),
                   entries[Len(entries)])

\* const pages = Math.ceil(total / itemsPerPage) || 1
totalPages ==
  LET pages == Ceil(Len(sorted.value), ItemsPerPage)
  IN IF pages = 0 THEN 1 ELSE pages

\* sorted.slice(start, end)
paginatedBatches ==
  Slice(sorted.value, (currentPage - 1) * ItemsPerPage,
        (currentPage - 1) * ItemsPerPage + ItemsPerPage)

\* The two memos of the page, evaluated for the list and the search term
\* of the next render.
Memos(newList, term) ==
  LET entries == filteredAndGroupedCerts(newList, term)
  IN /\ groups' = Rendered(entries)
     /\ sorted' = Rendered(sortEntries(entries))

Batch(group)  == [kind |-> "batch", value |-> group]

NoBatch == [kind |-> "null"]

\* The search box of the archive changes; the effect on searchTerm sets
\* the page to 1.
SetSearchTerm(term) ==
  /\ selectedBatch = NoBatch
  /\ term # searchTerm
  /\ searchTerm' = term
  /\ currentPage' = 1
  /\ Memos(list, term)
  /\ UNCHANGED <<serverVars, list, rendererVars, selectedBatch, modalSearch,
                 modalPage, draftVars>>

\* Previous: disabled on page 1; setCurrentPage(p => Math.max(p - 1, 1))
ArchivePrevious ==
  /\ selectedBatch = NoBatch
  /\ currentPage # 1
  /\ currentPage' = (IF currentPage - 1 > 1 THEN currentPage - 1 ELSE 1)
  /\ UNCHANGED <<serverVars, registryVars, rendererVars, selectedBatch,
                 modalSearch, modalPage, draftVars>>

\* Next Page: disabled on page totalPages;
\* setCurrentPage(p => Math.min(p + 1, totalPages))
ArchiveNext ==
  /\ selectedBatch = NoBatch
  /\ currentPage # totalPages
  /\ currentPage' = (IF currentPage + 1 < totalPages THEN currentPage + 1
                     ELSE totalPages)
  /\ UNCHANGED <<serverVars, registryVars, rendererVars, selectedBatch,
                 modalSearch, modalPage, draftVars>>

\* A row of the archive is clicked: setSelectedBatch(group)
OpenBatch(k) ==
  /\ selectedBatch = NoBatch
  /\ k \in 1..Len(paginatedBatches)
  /\ selectedBatch' = Batch(paginatedBatches[k])
  /\ UNCHANGED <<serverVars, registryVars, rendererVars, currentPage,
                 modalSearch, modalPage, draftVars>>

\* The backdrop or the close button: setSelectedBatch(null);
\* setModalSearch("")
CloseBatch ==
  /\ selectedBatch # NoBatch
  /\ selectedBatch' = NoBatch
  /\ modalSearch' = ""
  /\ UNCHANGED <<serverVars, registryVars, rendererVars, currentPage,
                 modalPage, draftVars>>

\* The search box of the detail view: setModalSearch(value);
\* setModalPage(1)
ModalSearchEdit(term) ==
  /\ selectedBatch # NoBatch
  /\ term # modalSearch
  /\ modalSearch' = term
  /\ modalPage' = 1
  /\ UNCHANGED <<serverVars, registryVars, rendererVars, currentPage,
                 selectedBatch, draftVars>>

\* Math.ceil(selectedBatch.certs.length / 10), the page count of the footer
modalPages == Ceil(Len(selectedBatch.value.certs), ModalItemsPerPage)

\* Prev of the detail view: disabled on page 1; setModalPage(p => p - 1)
ModalPrev ==
  /\ selectedBatch # NoBatch
  /\ modalPage # 1
  /\ modalPage' = modalPage - 1
  /\ UNCHANGED <<serverVars, registryVars, rendererVars, currentPage,
                 selectedBatch, modalSearch, draftVars>>

MaxModalPage == 2

\* Next of the detail view: disabled when modalPage equals the page count;
\* setModalPage(p => p + 1)
ModalNext ==
  /\ selectedBatch # NoBatch
  /\ modalPage # modalPages
  /\ modalPage < MaxModalPage
  /\ modalPage' = modalPage + 1
  /\ UNCHANGED <<serverVars, registryVars, rendererVars, currentPage,
                 selectedBatch, modalSearch, draftVars>>

\* The rows of the detail view: the members that hold the search text in
\* the name or the facility, sliced to the page.
currentModalItems ==
  LET search == toLowerCase(modalSearch)
      filteredCerts ==
        SelectSeq(selectedBatch.value.certs,
                  LAMBDA cert :
                    \E f \in {"participant_name", "facility"} :
                      /\ cert[f].t = "string"
                      /\ StrIncludes(toLowerCase(cert[f].s), search))
  IN Slice(filteredCerts, (modalPage - 1) * 10, modalPage * 10)

\* What the edit form changes in the record it was opened for.
Edits ==
  { [field |-> "training_date", value |-> FStr("April 2, 2025")],
    [field |-> "participant_name", value |-> FStr("Zed")] }

MaxEdited == 1

\* The ids of the records that carry a change of the edit form.
Edited(rows) ==
  {rows[i].id : i \in {j \in 1..Len(rows) :
                        \E e \in Edits : rows[j][e.field] = e.value}}

\* { ...cert, ...editForm } for the record of the form, cert otherwise
ApplyEdit(rows, id, edit) ==
  [i \in 1..Len(rows) |->
     IF rows[i].id = id THEN [rows[i] EXCEPT ![edit.field] = edit.value]
     ELSE rows[i]]

\* handleEditSubmit for the form opened on a row of the detail view: the
\* PUT succeeds and the edit is mapped into list and into selectedBatch,
\* or it fails and nothing changes.
EditSubmit(k, edit, ok) ==
  /\ selectedBatch # NoBatch
  /\ k \in 1..Len(currentModalItems)
  /\ LET cert == currentModalItems[k]
     IN /\ cert[edit.field] # edit.value
        /\ Cardinality((Edited(list) \cup Edited(selectedBatch.value.certs))
                        \ {cert.id}) < MaxEdited
        /\ IF ok
           THEN /\ list' = ApplyEdit(list, cert.id, edit)
                /\ selectedBatch' =
                     Batch([selectedBatch.value EXCEPT
                              !.certs = ApplyEdit(@, cert.id, edit)])
                /\ Memos(list', searchTerm)
           ELSE UNCHANGED <<list, selectedBatch, groups, sorted>>
  /\ UNCHANGED <<serverVars, searchTerm, rendererVars, currentPage,
                 modalSearch, modalPage, draftVars>>

Fetch(rows) == [kind |-> "fetch", rows |-> rows]

\* The records the server holds: those of the latest answer on its way,
\* or those of the list.
ServerRows == IF posts = <<>> THEN list ELSE posts[Len(posts)].rows


LargeList == 11

MaxDeleted == 1

\* Lists as the server returns them: three records in two batches, and
\* one more batch than a page of the archive holds.
SmallList ==
  << Cert(1, FStr("Ana"), FStr("March 5, 2025"),
          FStr("Basic Life Support Training")),
     Cert(2, FStr("Ben"), FStr("March 5, 2025"),
          FStr("Basic Life Support Training")),
     Cert(3, FStr("Cara"), FStr("June 1, 2025"),
          FStr("Basic Life Support Training")) >>

PagesOfBatches ==
  [i \in 1..LargeList |->
     Cert(i, FStr(IF i % 2 = 1 THEN "Ana" ELSE "Ben"),
          FStr("May " \o ToString(i) \o ", 2025"),
          FStr("Basic Life Support Training"))]

PageLists == {SmallList, PagesOfBatches}

\* The list the page was loaded with, told by the number of records the
\* server still holds.
InitialList ==
  CHOOSE l \in PageLists :
    /\ Len(ServerRows) <= Len(l)
    /\ Len(l) - Len(ServerRows) <= MaxDeleted

\* handleDelete for the form opened on a row of the detail view: the
\* DELETE succeeds, the record is filtered out of selectedBatch and
\* fetchCerts is called without waiting for it, or it fails and nothing
\* changes.
DeleteRecord(k, ok) ==
  /\ selectedBatch # NoBatch
  /\ k \in 1..Len(currentModalItems)
  /\ Len(ServerRows) + MaxDeleted > Len(InitialList)
  /\ LET id == currentModalItems[k].id
     IN IF ok
        THEN /\ selectedBatch' =
                  Batch([selectedBatch.value EXCEPT
                           !.certs = SelectSeq(@, LAMBDA c : c.id # id)])
             /\ posts' = Append(posts,
                                Fetch(SelectSeq(ServerRows,
                                                LAMBDA c : c.id # id)))
        ELSE UNCHANGED <<selectedBatch, posts>>
  /\ UNCHANGED <<serverVars, registryVars, rendererVars, currentPage,
                 modalSearch, modalPage, currentView, formRows, draft>>

\* The answer to fetchCerts arrives: setList(res.data), or the request
\* failed and the list stays.
FetchCertsDone(ok) ==
  /\ posts # <<>>
  /\ Head(posts).kind = "fetch"
  /\ posts' = Tail(posts)
  /\ IF ok
     THEN /\ list' = Head(posts).rows
          /\ Memos(list', searchTerm)
     ELSE UNCHANGED <<list, groups, sorted>>
  /\ UNCHANGED <<serverVars, searchTerm, rendererVars, pageVars,
                 currentView, formRows, draft>>

\* The page after its first load of the list.
InitPage(loaded) ==
  /\ pc = [p \in Clients |-> "idle"]
  /\ req = [p \in Clients |-> NoReq]
  /\ last = NoResponse
  /\ cookie = [p \in Clients |-> NoCookie]
  /\ users = {}
  /\ certificates = {}
  /\ nextCertId = 1
  /\ system_settings = NoRows
  /\ conns = [c \in ConnIds |-> ClosedConn]
  /\ idleStack = <<>>
  /\ list = loaded
  /\ searchTerm = ""
  /\ groups = Rendered(filteredAndGroupedCerts(list, ""))
  /\ sorted = Rendered(sortEntries(groups.value))
  /\ RenderersClosed
  /\ PageClosed
  /\ DraftClosed

ModalSearchTerms == {"", "an"}

\* The detail view of an archive of one page, with edits and deletions
InitDetail == InitPage(SmallList)

NextDetail ==
  \/ \E term \in SearchTerms : SetSearchTerm(term)
  \/ \E k \in 1..ItemsPerPage : OpenBatch(k)
  \/ CloseBatch
  \/ \E term \in ModalSearchTerms : ModalSearchEdit(term)
  \/ ModalPrev
  \/ ModalNext
  \/ \E k \in 1..ModalItemsPerPage, edit \in Edits, ok \in BOOLEAN :
       EditSubmit(k, edit, ok)
  \/ \E k \in 1..ModalItemsPerPage, ok \in BOOLEAN : DeleteRecord(k, ok)
  \/ \E ok \in BOOLEAN : FetchCertsDone(ok)

SpecDetail == InitDetail /\ [][NextDetail]_vars

\* An archive of two pages, with the detail views and deletions
InitArchive == InitPage(PagesOfBatches)

NextArchive ==
  \/ \E term \in SearchTerms : SetSearchTerm(term)
  \/ ArchivePrevious
  \/ ArchiveNext
  \/ \E k \in 1..ItemsPerPage : OpenBatch(k)
  \/ CloseBatch
  \/ \E term \in ModalSearchTerms : ModalSearchEdit(term)
  \/ ModalPrev
  \/ ModalNext
  \/ \E k \in 1..ModalItemsPerPage, ok \in BOOLEAN : DeleteRecord(k, ok)
  \/ \E ok \in BOOLEAN : FetchCertsDone(ok)

SpecArchive == InitArchive /\ [][NextArchive]_vars

\* The records the open detail view shows
Shown == selectedBatch.value.certs

\* C27: while a batch detail view is open, every record it shows is a
\* member of the batch it was opened for (the record's date and type give
\* that batch's key), and none of them is a record whose deletion the
\* server has confirmed, whatever edits and deletions were made through
\* the view.
C27_DetailViewNeverStale ==
  selectedBatch # NoBatch =>
    \A k \in 1..Len(Shown) :
      /\ batchId(Shown[k]) = selectedBatch.value.batchId
      /\ \E i \in 1..Len(ServerRows) : ServerRows[i].id = Shown[k].id

\* Math.max(1, Math.ceil(n / 10)) for the n records of the open batch
DetailPages == IF modalPages < 1 THEN 1 ELSE modalPages

\* C30: the archive's page index stays within 1..totalPages, and the page
\* index of an open batch detail view stays within 1..max(1, ceil(n / 10))
\* for the n records of the batch, after search edits, Previous and Next,
\* deletions, and closing and opening detail views.
C30_PageIndicesInRange ==
  /\ currentPage \in 1..totalPages
  /\ selectedBatch # NoBatch => modalPage \in 1..DetailPages

\* ---------------------------------------------------------------------
\* Browser side: the entry form, its local draft and the bulk submit
\* ---------------------------------------------------------------------

\* The keys of a form row in the order of INITIAL_FORM_ROW
RowKeys ==
  << "tempId", "participant_name", "training_type", "training_date",
     "venue", "facility", "participant_type", "age", "position" >>

\* { ...INITIAL_FORM_ROW, tempId: crypto.randomUUID() }
EmptyRow(tempId) ==
  [tempId |-> tempId, participant_name |-> "", training_type |-> "",
   training_date |-> "", venue |-> "", facility |-> "",
   participant_type |-> "", age |-> "", position |-> ""]

UUID(n) == "u" \o ToString(n)

\* The promises of the POSTs of a bulk submit, each with the row it was
\* made from.
Post(row, status) ==
  [kind |-> "post", of |-> row.tempId,
   body |-> [k \in CertFields |-> row[k]], status |-> status]

\* crypto.randomUUID(): an id that no row in memory, in the draft or in a
\* request carries.
FreshId ==
  LET used == {formRows[i].tempId : i \in 1..Len(formRows)}
              \cup {posts[i].of : i \in {j \in 1..Len(posts) :
                                          posts[j].kind = "post"}}
  IN UUID(CHOOSE n \in 1..(Len(formRows) + Len(posts) + 1) :
            /\ UUID(n) \notin used
            /\ \A m \in 1..(n - 1) : UUID(m) \in used)

\* JSON.stringify(formRows): every row as the sequence of its keys and
\* values, in the order of the keys.
JSONstringify(rows) ==
  [kind |-> "json",
   text |-> [i \in 1..Len(rows) |->
               [k \in 1..Len(RowKeys) |-> <<RowKeys[k], rows[i][RowKeys[k]]>>]]]

\* JSON.parse(saved): the objects of the text; a key the text does not
\* hold reads as "" (row.tempId || ...)
JSONparse(saved) ==
  [i \in 1..Len(saved.text) |->
     [key \in {RowKeys[k] : k \in 1..Len(RowKeys)} |->
        LET at == {k \in 1..Len(saved.text[i]) : saved.text[i][k][1] = key}
        IN IF at = {} THEN "" ELSE saved.text[i][CHOOSE k \in at : TRUE][2]]]

\* getInitialFormRows, with the tempId of INITIAL_FORM_ROW of this load
getInitialFormRows(saved, initialId) ==
  IF saved.kind = "json"
  THEN LET parsed == JSONparse(saved)
       IN [i \in 1..Len(parsed) |->
             [parsed[i] EXCEPT !.tempId = IF @ # "" THEN @ ELSE initialId]]
  ELSE <<EmptyRow(initialId)>>

\* The effect on formRows: localStorage.setItem("registry_draft", ...)
SaveDraft == draft' = JSONstringify(formRows')

FormValues ==
  [participant_name |-> {"", " ", "Ana"}, age |-> {"", "200"}]

MaxRows == 2

\* handleInputChange(index, field, value)
HandleInputChange(index, field, value) ==
  /\ currentView = "form"
  /\ index \in 1..Len(formRows)
  /\ formRows[index][field] # value
  /\ formRows' = [formRows EXCEPT ![index][field] = value]
  /\ SaveDraft
  /\ UNCHANGED <<serverVars, registryVars, rendererVars, pageVars,
                 currentView, posts>>

\* addEmptyRow
AddEmptyRow ==
  /\ currentView = "form"
  /\ Len(formRows) < MaxRows
  /\ formRows' = Append(formRows, EmptyRow(FreshId))
  /\ SaveDraft
  /\ UNCHANGED <<serverVars, registryVars, rendererVars, pageVars,
                 currentView, posts>>

\* Mutation of removeRow: the last row can be removed too.
removeRow_LastToo(prev, index) ==
  [i \in 1..(Len(prev) - 1) |-> IF i < index THEN prev[i] ELSE prev[i + 1]]

\* prev.length > 1 ? prev.filter((_, i) => i !== index) : prev
removeRow(prev, index) ==
  IF Len(prev) > 1
  THEN [i \in 1..(Len(prev) - 1) |-> IF i < index THEN prev[i] ELSE prev[i + 1]]
  ELSE prev

RemoveRow(index) ==
  /\ currentView = "form"
  /\ index \in 1..Len(formRows)
  /\ formRows' = removeRow(formRows, index)
  /\ SaveDraft
  /\ UNCHANGED <<serverVars, registryVars, rendererVars, pageVars,
                 currentView, posts>>

\* duplicateRow: a copy without the name and with an id of its own is
\* spliced in behind the row.
duplicateRow(prev, index, tempId) ==
  LET newRow == [prev[index] EXCEPT !.participant_name = "",
                                    !.tempId = tempId]
  IN SubSeq(prev, 1, index) \o <<newRow>> \o SubSeq(prev, index + 1, Len(prev))

DuplicateRow(index) ==
  /\ currentView = "form"
  /\ index \in 1..Len(formRows)
  /\ Len(formRows) < MaxRows
  /\ formRows' = duplicateRow(formRows, index, FreshId)
  /\ SaveDraft
  /\ UNCHANGED <<serverVars, registryVars, rendererVars, pageVars,
                 currentView, posts>>

\* clearAllRows: after the confirmation the rows are set to one empty row
\* and the draft is removed; the effect on formRows then saves that row.
ClearAllRows(confirmed) ==
  /\ currentView = "form"
  /\ IF confirmed
     THEN /\ formRows' = <<EmptyRow(FreshId)>>
          /\ SaveDraft
     ELSE UNCHANGED <<formRows, draft>>
  /\ UNCHANGED <<serverVars, registryVars, rendererVars, pageVars,
                 currentView, posts>>

\* handleKeyDown with Enter in an input of a row: on the last row a row is
\* added when the name of the row has text; elsewhere the focus moves.
HandleKeyDown(rowIndex) ==
  /\ currentView = "form"
  /\ rowIndex \in 1..Len(formRows)
  /\ IF rowIndex = Len(formRows)
        /\ trim(formRows[rowIndex].participant_name) # ""
        /\ Len(formRows) < MaxRows
     THEN /\ formRows' = Append(formRows, EmptyRow(FreshId))
          /\ SaveDraft
     ELSE UNCHANGED <<formRows, draft>>
  /\ UNCHANGED <<serverVars, registryVars, rendererVars, pageVars,
                 currentView, posts>>

\* formRows.filter((row) => row.participant_name.trim() !== "")
dataToSave == SelectSeq(formRows, LAMBDA row : trim(row.participant_name) # "")

MaxStored == 1

\* handleBulkSubmit up to await Promise.allSettled: one POST for every row
\* of dataToSave.  One bulk submit is explored at a time, and none once
\* the list holds MaxStored records.
HandleBulkSubmit ==
  /\ currentView = "form"
  /\ posts = <<>>
  /\ Len(list) < MaxStored
  /\ dataToSave # <<>>
  /\ posts' = [i \in 1..Len(dataToSave) |-> Post(dataToSave[i], "pending")]
  /\ UNCHANGED <<serverVars, registryVars, rendererVars, pageVars,
                 currentView, formRows, draft>>

\* validateCertificateData of the server on the body of a POST whose
\* values are texts; the number input gives digits only.
PostIsValid(body) ==
  /\ trim(body.participant_name) # ""
  /\ body.training_type = ""
       \/ \E k \in 1..4 : RenderTrainingTypes[k] = FStr(body.training_type)
  /\ body.participant_type = ""
       \/ \E k \in 1..2 :
            RenderParticipantTypes[k] = FStr(body.participant_type)
  /\ body.age = "" \/ (IsNumberWord(body.age) /\ NumberOf(body.age, 0) <= 120)

\* A POST settles: rejected when the request fails or the server refuses
\* the body, fulfilled when the server stored it.
PostSettles(i, status) ==
  /\ i \in 1..Len(posts)
  /\ posts[i].kind = "post"
  /\ posts[i].status = "pending"
  /\ status = "fulfilled" => PostIsValid(posts[i].body)
  /\ posts' = [posts EXCEPT ![i].status = status]
  /\ UNCHANGED <<serverVars, registryVars, rendererVars, pageVars,
                 currentView, formRows, draft>>

\* The text of a form field as the server stores it
Stored(text) == IF trim(text) = "" THEN FNull ELSE FStr(trim(text))

\* res.data of fetchCerts after the POSTs: the list and the records of
\* the fulfilled ones.
RECURSIVE WithStored(_, _)
WithStored(rows, settled) ==
  IF settled = <<>> THEN rows
  ELSE LET body == Head(settled).body
           record == Cert(Len(rows) + 1, Stored(body.participant_name),
                          Stored(body.training_date),
                          Stored(body.training_type))
       IN WithStored(IF Head(settled).status = "fulfilled"
                     THEN Append(rows, record) ELSE rows,
                     Tail(settled))

\* handleBulkSubmit after Promise.allSettled: when a POST was fulfilled
\* the rows are set to one empty row, the draft is removed (and saved
\* again by the effect), the list is fetched and the table is shown.
BulkSubmitDone(fetched) ==
  /\ posts # <<>>
  /\ \A i \in 1..Len(posts) :
       posts[i].kind = "post" /\ posts[i].status # "pending"
  /\ posts' = <<>>
  /\ IF \E i \in 1..Len(posts) : posts[i].status = "fulfilled"
     THEN /\ formRows' = <<EmptyRow(FreshId)>>
          /\ SaveDraft
          /\ list' = (IF fetched THEN WithStored(list, posts) ELSE list)
          /\ groups' = Rendered(filteredAndGroupedCerts(list', searchTerm))
          /\ sorted' = Rendered(sortEntries(groups'.value))
          /\ currentView' = "table"
     ELSE UNCHANGED <<formRows, draft, list, groups, sorted, currentView>>
  /\ UNCHANGED <<serverVars, searchTerm, rendererVars, pageVars>>

\* The page is loaded again: the state of Home is built anew, the rows
\* from the draft; the effect on formRows saves them.
Reload ==
  /\ posts = <<>>
  /\ formRows' = getInitialFormRows(draft, FreshId)
  /\ SaveDraft
  /\ currentView' = "home"
  /\ UNCHANGED <<serverVars, registryVars, rendererVars, pageVars, posts>>

\* The views the navigation is followed to
Views == {"table", "form"}

\* The navigation: setCurrentView(item.id)
ShowView(view) ==
  /\ view # currentView
  /\ currentView' = view
  /\ UNCHANGED <<serverVars, registryVars, rendererVars, pageVars,
                 formRows, draft, posts>>

\* The first load of the page in a browser without a draft
InitDraft ==
  /\ pc = [p \in Clients |-> "idle"]
  /\ req = [p \in Clients |-> NoReq]
  /\ last = NoResponse
  /\ cookie = [p \in Clients |-> NoCookie]
  /\ users = {}
  /\ certificates = {}
  /\ nextCertId = 1
  /\ system_settings = NoRows
  /\ conns = [c \in ConnIds |-> ClosedConn]
  /\ idleStack = <<>>
  /\ list = <<>>
  /\ searchTerm = ""
  /\ groups = Rendered(<<>>)
  /\ sorted = Rendered(<<>>)
  /\ RenderersClosed
  /\ PageClosed
  /\ currentView = "home"
  /\ formRows = getInitialFormRows([kind |-> "null"], UUID(1))
  /\ draft = JSONstringify(formRows)
  /\ posts = <<>>

NextDraft ==
  \/ \E index \in 1..MaxRows, field \in DOMAIN FormValues :
       \E value \in FormValues[field] :
         HandleInputChange(index, field, value)
  \/ AddEmptyRow
  \/ \E index \in 1..MaxRows : RemoveRow(index)
  \/ \E index \in 1..MaxRows : DuplicateRow(index)
  \/ \E confirmed \in BOOLEAN : ClearAllRows(confirmed)
  \/ \E rowIndex \in 1..MaxRows : HandleKeyDown(rowIndex)
  \/ HandleBulkSubmit
  \/ \E i \in 1..MaxRows, status \in {"fulfilled", "rejected"} :
       PostSettles(i, status)
  \/ \E fetched \in BOOLEAN : BulkSubmitDone(fetched)
  \/ Reload
  \/ \E view \in Views : ShowView(view)

SpecDraft == InitDraft /\ [][NextDraft]_vars

\* What a reload would put into memory from the stored draft
Restored == getInitialFormRows(draft, "none")

IsSingleEmptyRow(rows) ==
  /\ Len(rows) = 1
  /\ \A key \in CertFields : rows[1][key] = ""

DraftHoldsRows ==
  /\ Len(formRows) >= 1
  /\ draft.kind = "json"
  /\ Len(draft.text) >= 1
  /\ Restored = formRows

ResetsDraft ==
  \/ ClearAllRows(TRUE)
  \/ /\ \E fetched \in BOOLEAN : BulkSubmitDone(fetched)
     /\ \E i \in 1..Len(posts) : posts[i].status = "fulfilled"

\* C28: after every add-row, remove-row, duplicate-row, field edit,
\* clear-all and bulk submit, the stored draft restores exactly the rows
\* in memory and has at least one row; a reload leaves the rows as they
\* were; and after a confirmed clear-all or a bulk submit that reset the
\* draft, memory and draft hold a single empty row.
C28_DraftRestoresRows ==
  /\ []DraftHoldsRows
  /\ [][/\ Reload => formRows' = formRows
        /\ ResetsDraft =>
             IsSingleEmptyRow(formRows')
             /\ IsSingleEmptyRow(getInitialFormRows(draft', "none"))]_vars

\* Two rows with entries are in memory after a reload (the view is the
\* one a load starts with) and the draft restores them.
C28_Witness ==
  /\ currentView = "home"
  /\ Len(formRows) = 2
  /\ formRows[1].participant_name = "Ana"
  /\ formRows[2].age = "200"
  /\ Restored = formRows

\* The number of POSTs made for the row of an id
PostsOf(requests, tempId) ==
  Cardinality({i \in 1..Len(requests) : requests[i].of = tempId})

\* A bulk submit starts: the step that puts its POSTs in flight.
SubmitStarts == posts = <<>> /\ posts' # <<>>

\* A bulk submit ends: the step after all its POSTs have settled.
SubmitEnds == posts # <<>> /\ posts' = <<>>

StillInDraft(tempId) ==
  \E j \in 1..Len(formRows') : formRows'[j].tempId = tempId

\* C29: a bulk submit POSTs exactly the rows whose participant_name is
\* non-empty after trimming, each once, with the row's eight fields; when
\* it ends, every row whose POST failed is still in the draft, and when no
\* POST succeeded the rows and the draft are unchanged.
C29_FailedRowsStay ==
  [][/\ SubmitStarts =>
          /\ \A i \in 1..Len(formRows) :
               PostsOf(posts', formRows[i].tempId)
                 = IF trim(formRows[i].participant_name) # "" THEN 1 ELSE 0
          /\ \A k \in 1..Len(posts') :
               \E i \in 1..Len(formRows) :
                 /\ posts'[k].of = formRows[i].tempId
                 /\ \A key \in CertFields :
                      posts'[k].body[key] = formRows[i][key]
     /\ SubmitEnds =>
          /\ \A k \in 1..Len(posts) :
               (/\ posts[k].status = "rejected"
                /\ \E i \in 1..Len(formRows) :
                     formRows[i].tempId = posts[k].of)
               => StillInDraft(posts[k].of)
          /\ (\A k \in 1..Len(posts) : posts[k].status = "rejected")
               => formRows' = formRows /\ draft' = draft]_vars

====
